---------------------------- MODULE Spec2Model ----------------------------
(***************************************************************************)
(* Houdini Package Manager: the package-configuration resolution engine    *)
(* (Package: load, flatten, resolve, extract) and the remote tag cache     *)
(* (GitProject / _Repo).                                                   *)
(*                                                                         *)
(* A Python str is a sequence of one-character strings.  A JSON scalar, a  *)
(* key and an index are tagged records: [str |-> chars], [num |-> n],      *)
(* [bool |-> b], [null |-> TRUE]; a key is a str and an index is a num, as *)
(* in Python.  A JSON object is [obj |-> <<<<key, node>>, ...>>] (a dict   *)
(* keeps insertion order) and an array is [arr |-> <<node, ...>>].         *)
(***************************************************************************)
EXTENDS Integers, Sequences, FiniteSets, TLC

VARIABLES
    file,                  \* the package's backing file: [status, doc]
    raw_json,              \* Package._raw_json
    config,                \* Package.config (the flattened package entries)
    env_vars,              \* Package._env_vars, a dict: <<<<name, value>>, ...>>
    env_rows,              \* resolve(): the env_vars rows prepended to config
    hconfig_plugin_paths,  \* Package._hconfig_plugin_paths (Path objects)
    disk,                  \* the paths that exist on disk (Path.exists)
    warnings,              \* Package.warnings
    plugin_paths,          \* Package._plugin_paths
    stack,                 \* the active _replace_var_calls frames, innermost last
    pc,                    \* the position of the package's constructor / caller
    err,                   \* the exception that escaped, "" when none
    resolve_calls,         \* how many times resolve() has been called
    last_sub,              \* the last substitution _replace_var_calls performed
    pass_start,            \* _resolve_vars: the entries its last pass started from
    remote_url,            \* GitProject.remote_url, <<>> for None
    project_owner,         \* GitProject.owner, <<>> for None
    project_name,          \* GitProject.name, <<>> for None
    _tags,                 \* _Repo._tags of GitProject.remote: the known tags
    user_data,             \* the user data file of UserDataManager: [exists, data]
    data_writes,           \* how many times UserDataManager._write_data has run
    remote_size,           \* how many tags the remote repository holds
    fetch_pc,              \* the position of fetch_remote_tags
    paginate,              \* fetch_remote_tags: its paginate argument
    cache,                 \* fetch_remote_tags: its cache argument
    pagination_page,       \* _fetch_all_pages: pagination_page
    all_tags,              \* _fetch_all_pages: all_tags
    requests,              \* the params of the requests sent by the running fetch
    responses,             \* the responses to them: [status, tags]
    fetch_result,          \* what the last fetch_remote_tags returned
    fetch_err,             \* the exception the last fetch_remote_tags raised, "" when none
    fetches,               \* how many times fetch_remote_tags has been called
    new_tags,              \* the value last assigned to _Repo.tags
    old_tags,              \* _Repo._tags before that assignment
    tags_err,              \* the exception that assignment raised, "" when none
    _enable,               \* Package._enable, Null until the setter runs
    enable_read,           \* what the last read of Package.enable returned
    enable_err,            \* the exception the last write of Package.enable raised
    enable_ops,            \* how many times Package.enable has been read or written
    dumped,                \* the toggle the setter last dumped to the file, Null when none
    latest_pc,             \* the position of fetch_latest_remote_tag
    latest_tag,            \* what the last fetch_latest_remote_tag returned
    cell_data,             \* the rows of the packages table: project, LATEST cell
    sync_row,              \* the row whose sync button handler is running, 0 for none
    tracker,               \* GlobalExceptionTracker._exception, "" for None
    status_bar,            \* the last message of the status bar
    clicks,                \* how many times the user clicked a row's sync button
    batch_pc,              \* the position of fetch_all_package_remote_metadata
    batch_row,             \* its loop: the row it is at
    batch_exception,       \* its local variable exception, "unbound" until assigned
    started,               \* the rows a batch has clicked, in order
    batches,               \* how many batches have been started
    cache_call,            \* the last call of the UserDataManager and what it returned
    cache_calls,           \* how many calls of the UserDataManager were made
    writers,               \* the update_tags calls in progress, one per writer of the file
    walk,                  \* create_pkgs: the files of the packages directory still to be read
    pkgs                   \* PackageCollection.pkgs: the packages constructed, in order

pkg_vars == <<file, raw_json, config, env_vars, env_rows, hconfig_plugin_paths,
              disk, warnings, plugin_paths, stack, pc, err, resolve_calls, last_sub,
              pass_start>>

repo_vars == <<remote_url, project_owner, project_name, _tags, user_data, data_writes,
               remote_size,
               fetch_pc, paginate, cache, pagination_page, all_tags, requests, responses,
               fetch_result, fetch_err, fetches, new_tags, old_tags, tags_err>>

enable_vars == <<_enable, enable_read, enable_err, enable_ops, dumped>>

sync_vars == <<latest_pc, latest_tag, cell_data, sync_row, tracker, status_bar, clicks>>

batch_vars == <<batch_pc, batch_row, batch_exception, started, batches>>

cache_vars == <<cache_call, cache_calls, writers>>

scan_vars == <<walk, pkgs>>

ui_vars == <<enable_vars, sync_vars, batch_vars, cache_vars, scan_vars>>

(***************************************************************************)
(* Bounds of the model.                                                    *)
(***************************************************************************)
MaxEnvEntries == 3      \* entries of the "env" list of an enumerated config
MaxKids == 2            \* children of a container of an enumerated JSON tree
MaxPathItems == 2       \* paths joined in an enumerated path-list value
MaxResolveCalls == 2    \* calls of Package.resolve() on one package
MaxValueLen == 48       \* longest value a substitution may produce

(***************************************************************************)
(* Characters and strings.                                                 *)
(***************************************************************************)
UpperCase == <<"A","B","C","D","E","F","G","H","I","J","K","L","M",
               "N","O","P","Q","R","S","T","U","V","W","X","Y","Z">>
LowerCase == <<"a","b","c","d","e","f","g","h","i","j","k","l","m",
               "n","o","p","q","r","s","t","u","v","w","x","y","z">>
Digits == <<"0","1","2","3","4","5","6","7","8","9">>

Range(s) == {s[i] : i \in DOMAIN s}
UpperSet == Range(UpperCase)
LowerSet == Range(LowerCase)
DigitSet == Range(Digits)
LowerOf == [ch \in UpperSet |-> LowerCase[CHOOSE i \in 1..26 : UpperCase[i] = ch]]

\* str.lower() of one character and of a string
char_lower(ch) == IF ch \in UpperSet THEN LowerOf[ch] ELSE ch
lower(s) == [i \in 1..Len(s) |-> char_lower(s[i])]

\* str.isalpha(), str.isdigit() and str.isidentifier() of one character
isalpha(ch) == ch \in UpperSet \cup LowerSet
isdigit(ch) == ch \in DigitSet
isidentifier(ch) == isalpha(ch) \/ ch = "_"

\* _resolve_vars.is_variable
is_variable(ch) == isalpha(ch) \/ isdigit(ch) \/ ch = "_"

Contains(s, ch) == \E i \in 1..Len(s) : s[i] = ch
Last(s) == s[Len(s)]
Front(s) == SubSeq(s, 1, Len(s) - 1)

RECURSIVE Concat(_)
Concat(ss) == IF ss = <<>> THEN <<>> ELSE Head(ss) \o Concat(Tail(ss))

\* str.replace(old, new) for a one-character old
replace_char(s, old, new) == [i \in 1..Len(s) |-> IF s[i] = old THEN new ELSE s[i]]

\* str.split(sep) for a one-character sep: the pieces between the separators
RECURSIVE split(_, _)
split(s, sep) ==
    IF ~Contains(s, sep) THEN <<s>>
    ELSE LET i == CHOOSE k \in 1..Len(s) : s[k] = sep /\ \A j \in 1..(k-1) : s[j] # sep
         IN  <<SubSeq(s, 1, i - 1)>> \o split(SubSeq(s, i + 1, Len(s)), sep)

\* itertools.takewhile(pred, s)
RECURSIVE takewhile_variable(_)
takewhile_variable(s) ==
    IF s = <<>> \/ ~is_variable(Head(s)) THEN <<>>
    ELSE <<Head(s)>> \o takewhile_variable(Tail(s))

RECURSIVE takewhile_identifier(_)
takewhile_identifier(s) ==
    IF s = <<>> \/ ~isidentifier(Head(s)) THEN <<>>
    ELSE <<Head(s)>> \o takewhile_identifier(Tail(s))

\* a substitution that takes the letters of pat as they are written
RECURSIVE re_sub_exactcase(_, _, _)
re_sub_exactcase(pat, repl, s) ==
    IF Len(s) < Len(pat) THEN s
    ELSE IF SubSeq(s, 1, Len(pat)) = pat
         THEN repl \o re_sub_exactcase(pat, repl, SubSeq(s, Len(pat) + 1, Len(s)))
         ELSE <<Head(s)>> \o re_sub_exactcase(pat, repl, Tail(s))

\* re.compile(re.escape(pat), re.IGNORECASE).sub(repl, s): every non-overlapping
\* occurrence of pat in s, letter case ignored, replaced left to right by repl
\* (repl holds no backslash after _standard_paths, so it is taken literally)
MatchesAt(pat, s) ==
    /\ Len(s) >= Len(pat)
    /\ \A i \in 1..Len(pat) : char_lower(s[i]) = char_lower(pat[i])

RECURSIVE re_sub_ignorecase(_, _, _)
re_sub_ignorecase(pat, repl, s) ==
    IF Len(s) < Len(pat) THEN s
    ELSE IF MatchesAt(pat, s)
         THEN repl \o re_sub_ignorecase(pat, repl, SubSeq(s, Len(pat) + 1, Len(s)))
         ELSE <<Head(s)>> \o re_sub_ignorecase(pat, repl, Tail(s))

(***************************************************************************)
(* JSON values.                                                            *)
(***************************************************************************)
Str(s) == [str |-> s]
Num(n) == [num |-> n]
Bool(b) == [bool |-> b]
Null == [null |-> TRUE]
Obj(kvs) == [obj |-> kvs]
Arr(items) == [arr |-> items]

IsStr(x) == DOMAIN x = {"str"}
IsNum(x) == DOMAIN x = {"num"}
IsObj(x) == DOMAIN x = {"obj"}
IsArr(x) == DOMAIN x = {"arr"}

(***************************************************************************)
(* Package._flatten_package                                                *)
(***************************************************************************)
\* a flatten that numbers the items of an array from 1
RECURSIVE flatten_from_one(_, _)
flatten_from_one(data, prefix) ==
    IF IsObj(data)
    THEN Concat([i \in 1..Len(data.obj) |->
                    flatten_from_one(data.obj[i][2], Append(prefix, Str(data.obj[i][1])))])
    ELSE IF IsArr(data)
    THEN Concat([i \in 1..Len(data.arr) |->
                    flatten_from_one(data.arr[i], Append(prefix, Num(i)))])
    ELSE <<Append(prefix, data)>>

RECURSIVE _flatten_package(_, _)
_flatten_package(data, prefix) ==
    IF IsObj(data)
    THEN Concat([i \in 1..Len(data.obj) |->
                    _flatten_package(data.obj[i][2], Append(prefix, Str(data.obj[i][1])))])
    ELSE IF IsArr(data)
    THEN Concat([i \in 1..Len(data.arr) |->
                    _flatten_package(data.arr[i], Append(prefix, Num(i - 1)))])
    ELSE <<Append(prefix, data)>>


(***************************************************************************)
(* Package._standard_paths                                                 *)
(***************************************************************************)
\* a _standard_paths that leaves the values as they are
keep_paths(data) == data

_standard_paths(data) ==
    [i \in 1..Len(data) |->
        LET value == Last(data[i])
        IN  IF IsStr(value) /\ (Contains(value.str, "/") \/ Contains(value.str, "\\"))
            THEN [data[i] EXCEPT ![Len(data[i])] = Str(replace_char(value.str, "\\", "/"))]
            ELSE data[i]]

(***************************************************************************)
(* Package._split_indexes                                                  *)
(***************************************************************************)
_split_indexes(nums, split_num) ==
    LET bigger == {i \in 1..Len(nums) : nums[i] > split_num}
        index == IF bigger = {} THEN Len(nums)
                 ELSE (CHOOSE i \in bigger : \A j \in bigger : i <= j) - 1
    IN  <<SubSeq(nums, 1, index), SubSeq(nums, index + 1, Len(nums))>>

(***************************************************************************)
(* Package._resolve_vars: the names and the calls of one pass.  A path of  *)
(* one element has no path[-2]: the scan raises IndexError.                *)
(***************************************************************************)
HasShortPath(data) == \E i \in 1..Len(data) : Len(data[i]) < 2

\* potential_var_names: kept as a list without repeats, used for membership only
potential_var_names(data) ==
    {lower(data[i][Len(data[i]) - 1].str) :
        i \in {j \in 1..Len(data) : IsStr(data[j][Len(data[j]) - 1])}}

\* the names called in one value: the text after every "$", lower-cased, cut at
\* the first character that is_variable rejects
calls_of_value(value, potential) ==
    LET pieces == Tail(split(value, "$"))
        names == [i \in 1..Len(pieces) |-> takewhile_variable(lower(pieces[i]))]
    IN  SelectSeq(names, LAMBDA call : call # <<>> /\ call \in potential)

\* the same scan as _replace_var_calls writes it: str.isidentifier decides
new_calls_of_value(value, potential) ==
    LET pieces == Tail(split(value, "$"))
        names == [i \in 1..Len(pieces) |-> takewhile_identifier(lower(pieces[i]))]
    IN  SelectSeq(names, LAMBDA call : call # <<>> /\ call \in potential)

\* var_calls: [call, i, set()] for every call of every entry, in entry order
var_calls(data, potential) ==
    Concat([i \in 1..Len(data) |->
        LET value == Last(data[i])
        IN  IF IsStr(value) /\ Contains(value.str, "$")
            THEN LET names == calls_of_value(value.str, potential)
                 IN  [k \in 1..Len(names) |->
                        [call |-> names[k], call_i |-> i - 1, processed |-> {}]]
            ELSE <<>>])

(***************************************************************************)
(* Package._replace_var_calls                                              *)
(***************************************************************************)
\* var_inits: [var name, var value, index] of every entry declaring a called name
var_inits(data, calls) ==
    LET known_vars == {calls[k].call : k \in 1..Len(calls)}
        all == [i \in 1..Len(data) |->
                    [name |-> data[i][Len(data[i]) - 1],
                     value |-> Last(data[i]),
                     index |-> i - 1]]
    IN  SelectSeq(all, LAMBDA init : IsStr(init.name) /\ lower(init.name.str) \in known_vars)

\* the indexes of the declarations of one called name
var_init_indexes(inits, call) ==
    LET mine == SelectSeq(inits, LAMBDA init : lower(init.name.str) = call)
    IN  [k \in 1..Len(mine) |-> mine[k].index]

\* the other end of the second part: the last of the later declarations
var_index_farthest(priority) ==
    IF Len(priority[1]) # 0 THEN Last(priority[1]) ELSE Last(priority[2])

\* the declaration a call takes its value from: the last one of the first part
\* of _split_indexes, else the first one of the second part
var_index_of(priority) ==
    IF Len(priority[1]) # 0 THEN Last(priority[1]) ELSE priority[2][1]

init_at(inits, index) ==
    inits[CHOOSE k \in 1..Len(inits) :
            inits[k].index = index /\ \A j \in 1..(k-1) : inits[j].index # index]

Merged == env_rows \o config

SetValue(data, i, value) == [data EXCEPT ![i] = [@ EXCEPT ![Len(@)] = value]]

CircularWarning(call) == [kind |-> "circular", var |-> call]
InvalidJsonWarning == [kind |-> "invalid_json", var |-> <<>>]

NoSub == [call |-> <<>>, call_i |-> 0, var_index |-> 0, depth |-> 0,
          old |-> <<>>, repl |-> <<>>, new |-> <<>>, decls |-> <<>>]

(***************************************************************************)
(* Package._find_plugin_paths and Package.extract_data                     *)
(***************************************************************************)
HOUDINI_PATH == <<"H","O","U","D","I","N","I","_","P","A","T","H">>
PATH_KEY == <<"p","a","t","h">>
HPATH_KEY == <<"h","p","a","t","h">>

\* "name" in path: list membership, over the keys, the indexes and the value
InPath(name, path) == \E i \in 1..Len(path) : path[i] = Str(name)

\* _find_plugin_paths.split_paths; string[-1] of "" raises IndexError
split_paths_raises(string) == string = <<>>

split_paths(string) ==
    LET n == Len(string)
        cut == IF n >= 2 /\ SubSeq(string, n - 1, n) = <<";", "&">>
               THEN SubSeq(string, 1, n - 2)
               ELSE IF string[n] = ";" THEN SubSeq(string, 1, n - 1) ELSE string
    IN  split(cut, ";")

\* the list without its repeats, first occurrences kept
RECURSIVE dedupe(_)
dedupe(xs) ==
    IF xs = <<>> THEN <<>>
    ELSE LET front == dedupe(Front(xs))
         IN  IF Last(xs) \in Range(front) THEN front ELSE Append(front, Last(xs))

\* pathlib.Path(string), as the string of the path: repeated and trailing "/"
\* and "." components are dropped, "" is "." (POSIX flavour)
Join(parts, sep) ==
    Concat([i \in 1..Len(parts) |-> IF i = 1 THEN parts[i] ELSE sep \o parts[i]])

Path(string) ==
    LET parts == SelectSeq(split(string, "/"), LAMBDA part : part # <<>> /\ part # <<".">>)
        n == Len(string)
        root == IF n >= 1 /\ string[1] = "/"
                THEN IF n >= 2 /\ string[2] = "/" /\ ~(n >= 3 /\ string[3] = "/")
                     THEN <<"/", "/">> ELSE <<"/">>
                ELSE <<>>
    IN  IF root = <<>> /\ parts = <<>> THEN <<".">> ELSE root \o Join(parts, <<"/">>)

path_entries(paths) ==
    SelectSeq(paths, LAMBDA path :
        /\ InPath(HOUDINI_PATH, path) \/ InPath(PATH_KEY, path) \/ InPath(HPATH_KEY, path)
        /\ IsStr(Last(path)))

_find_plugin_paths_raises(paths) ==
    \E i \in 1..Len(path_entries(paths)) : split_paths_raises(Last(path_entries(paths)[i]).str)

_find_plugin_paths(paths) ==
    LET entries == path_entries(paths)
        strings == dedupe(Concat([i \in 1..Len(entries) |-> split_paths(Last(entries[i]).str)]))
        as_paths == [i \in 1..Len(strings) |-> Path(strings[i])]
    IN  SelectSeq(as_paths, LAMBDA path : path \in disk)

extract_data(paths) ==
    SelectSeq(_find_plugin_paths(paths), LAMBDA path : path \in Range(hconfig_plugin_paths))

(***************************************************************************)
(* The inputs of a package: its file, the host environment variables, the  *)
(* host's plugin paths and the disk.                                       *)
(***************************************************************************)
SeqsUpTo(S, n) == UNION {[1..k -> S] : k \in 0..n}

ENV_KEY == <<"e","n","v">>
EnvKeys == {<<"A">>, <<"b">>}
EnvValues == {<<"x">>, <<"$","a">>, <<"$","B","/","$","a">>}
EnvEntries == {Obj(<< <<k, Str(v)>> >>) : k \in EnvKeys, v \in EnvValues}

\* {"env": [{key: value}, ...]}: one declaration per element of the env list
EnvDocs == {Obj(<< <<ENV_KEY, Arr(items)>> >>) : items \in SeqsUpTo(EnvEntries, MaxEnvEntries)}
HostEnvs == {<<>>, << <<(<<"A">>), (<<"h">>)>> >>}

Input(doc, status, env, hconfig, existing) ==
    [doc |-> doc, status |-> status, env |-> env, hconfig |-> hconfig, disk |-> existing]

ResolveInputs == {Input(doc, "valid", env, <<>>, {}) : doc \in EnvDocs, env \in HostEnvs}

\* nested JSON values: scalars, and containers of scalars and of small containers
Leaves == {Str(<<"x">>), Num(0)}
TreeKeys == << <<"k">>, <<"m">>, <<"n">>, <<"q">> >>
Kids == Leaves \cup {Arr(<<>>), Obj(<<>>)}
               \cup {Arr(<<leaf>>) : leaf \in Leaves}
               \cup {Obj(<< <<TreeKeys[1], leaf>> >>) : leaf \in Leaves}
ArrDocs == {Arr(items) : items \in SeqsUpTo(Kids, MaxKids)}
ObjDocs == {Obj([i \in 1..Len(items) |-> <<TreeKeys[i], items[i]>>]) :
                items \in SeqsUpTo(Kids, MaxKids)}
TreeInputs == {Input(doc, "valid", <<>>, <<>>, {}) : doc \in Leaves \cup ArrDocs \cup ObjDocs}

\* path lists: {"env": [{"R": "p"}], key: "$R/m;$R/o;&"} against the host's paths
ROOT_KEY == <<"R">>
PathItems == {<<"$","R","/","m">>, <<"$","R","/","o">>, <<"$","R","/","m","/">>}
PathTails == {<<>>, <<";">>, <<";","&">>}
PathValues == {Join(items, <<";">>) \o tail :
                items \in SeqsUpTo(PathItems, MaxPathItems) \ {<<>>}, tail \in PathTails}
PathKeys == {HOUDINI_PATH, PATH_KEY, HPATH_KEY, <<"x">>}
PathDocs == {Obj(<< <<ENV_KEY, Arr(<<Obj(<< <<ROOT_KEY, Str(<<"p">>)>> >>)>>)>>,
                    <<key, Str(value)>> >>) : key \in PathKeys, value \in PathValues}
PM == <<"p","/","m">>
PO == <<"p","/","o">>
HostPaths == {<<>>, <<PM>>, <<PO>>, <<PM, PO>>}
PathInputs == {Input(doc, "valid", <<>>, hconfig, {PM, PO}) :
                doc \in PathDocs, hconfig \in HostPaths}

\* single packages: cycles, separators, the documented scenario, scalars, bad files
CycleDoc ==
    Input(Obj(<< << <<"A">>,Str(<<"$","B">>)>>,<< <<"B">>,Str(<<"$","A">>)>> >>),
          "valid", <<>>,
          <<>>,
          {})

CyclePrefixDoc ==
    Input(Obj(<< << <<"A","B">>,Str(<<"$","C">>)>>,<< <<"C">>,Str(<<"$","A","B","$","A">>)>>,
            << <<"A">>,Str(<<"x">>)>> >>),
          "valid", <<>>,
          <<>>,
          {})

CycleDigitDoc ==
    Input(Obj(<< << <<"a">>,Str(<<"x">>)>>,<< <<"b">>,Str(<<"y">>)>>,<< <<"a","1">>,Str(<<"$",
            "b","1">>)>>,<< <<"b","1">>,Str(<<"$","a","1">>)>> >>),
          "valid", <<>>,
          <<>>,
          {})

\* variables whose names hold digits: {"1": "$1"} and {"a1": "$b1", "b1": "$a1"}
DigitSelfDoc ==
    Input(Obj(<< << <<"1">>,Str(<<"$","1">>)>> >>),
          "valid", <<>>,
          <<>>,
          {})

DigitSwapDoc ==
    Input(Obj(<< << <<"a","1">>,Str(<<"$","b","1">>)>>,<< <<"b","1">>,Str(<<"$","a","1">>)>> >>),
          "valid", <<>>,
          <<>>,
          {})

\* a variable that calls itself beside a path the host knows: {"A": "$A", "hpath": "p/m"}
CyclePathDoc ==
    Input(Obj(<< << <<"A">>,Str(<<"$","A">>)>>,<< <<"h","p","a","t","h">>,Str(<<"p","/","m">>)>> >>),
          "valid", <<>>,
          << <<"p","/","m">> >>,
          {<<"p","/","m">>, <<"p","/","o">>})

\* a declared name that is a prefix of another declared name:
\* {"A": "x", "AB": "y", "k": "$A/$AB"}
LongerNameDoc ==
    Input(Obj(<< << <<"A">>,Str(<<"x">>)>>,<< <<"A","B">>,Str(<<"y">>)>>,
            << <<"k">>,Str(<<"$","A","/","$","A","B">>)>> >>),
          "valid", <<>>,
          <<>>,
          {})

\* a value that calls two variables that both call a third one:
\* {"k": "$a$b", "a": "$c", "b": "$c", "c": "x"}
DiamondDoc ==
    Input(Obj(<< << <<"k">>,Str(<<"$","a","$","b">>)>>,<< <<"a">>,Str(<<"$","c">>)>>,
            << <<"b">>,Str(<<"$","c">>)>>,<< <<"c">>,Str(<<"x">>)>> >>),
          "valid", <<>>,
          <<>>,
          {})

BackslashDoc ==
    Input(Obj(<< << <<"e","n","v">>,Arr(<<Obj(<< << <<"A">>,Str(<<"c","\\","d">>)>> >>),
            Obj(<< << <<"b">>,Str(<<"$","a","\\","e">>)>> >>)>>)>>,<< <<"k">>,Str(<<"x","\\",
            "y">>)>> >>),
          "valid", <<>>,
          <<>>,
          {})

SlashOnlyDoc ==
    Input(Obj(<< << <<"k">>,Str(<<"x","\\","y">>)>> >>),
          "valid", <<>>,
          <<>>,
          {})

ScenarioDoc ==
    Input(Obj(<< << <<"e","n","v">>,Arr(<<Obj(<< << <<"B","A","S","E">>,Str(<<"C",":","/","p",
            "l","u","g","i","n","s">>)>> >>)>>)>>,<< <<"h","p","a","t","h">>,Str(<<"$","B","A",
            "S","E","/","m","y","p","l","u","g","i","n",";","$","B","A","S","E","/","o","t","h",
            "e","r">>)>> >>),
          "valid", <<>>,
          << <<"C",":","/","p","l","u","g","i","n","s","/","m","y","p","l","u","g","i","n">> >>,
          {<<"C",":","/","p","l","u","g","i","n","s","/","m","y","p","l","u","g","i","n">>})

ValueNamedPathDoc ==
    Input(Obj(<< << <<"x">>,Str(<<"h","p","a","t","h">>)>> >>),
          "valid", <<>>,
          << <<"h","p","a","t","h">> >>,
          {<<"h","p","a","t","h">>})

NestedPathDoc ==
    Input(Obj(<< << <<"e","n","v">>,Arr(<<Obj(<< << <<"R">>,Str(<<"p">>)>> >>),Obj(<< << <<"H",
            "O","U","D","I","N","I","_","P","A","T","H">>,Obj(<< << <<"v","a","l","u","e">>,
            Arr(<<Str(<<"$","R","/","m">>),Str(<<"$","R","/","o",";">>)>>)>> >>)>> >>)>>)>> >>),
          "valid", <<>>,
          << <<"p","/","m">>, <<"p","/","o">> >>,
          {<<"p","/","m">>, <<"p","/","o">>})

NumberCallDoc ==
    Input(Obj(<< << <<"C">>,Num(3)>>,<< <<"D">>,Str(<<"$","C">>)>> >>),
          "valid", <<>>,
          <<>>,
          {})

EmptyPathDoc ==
    Input(Obj(<< << <<"h","p","a","t","h">>,Str(<<>>)>> >>),
          "valid", <<>>,
          <<>>,
          {})

ExtendHostDoc ==
    Input(Obj(<< << <<"P","A","T","H">>,Str(<<"$","P","A","T","H",";","e","x","t","r",
            "a">>)>> >>),
          "valid", << << <<"P","A","T","H">>, <<"/","u","s","r","/","b","i","n">> >> >>,
          <<>>,
          {})

RepairedDoc ==
    Input(Obj(<< << <<"e","n","v">>,Arr(<<Obj(<< << <<"A">>,Str(<<"x">>)>> >>),
            Obj(<< << <<"b">>,Str(<<"$","a">>)>> >>)>>)>> >>),
          "repairable", <<>>,
          <<>>,
          {})

BrokenDoc ==
    Input(Obj(<< << <<"e","n","v">>,Arr(<<Obj(<< << <<"A">>,Str(<<"x">>)>> >>),
            Obj(<< << <<"b">>,Str(<<"$","a">>)>> >>)>>)>> >>),
          "broken", <<>>,
          <<>>,
          {})

\* a file holding a byte that is no text in the encoding it is opened with
UndecodableDoc ==
    Input(Obj(<< << <<"A">>,Str(<<"x">>)>> >>),
          "undecodable", <<>>,
          <<>>,
          {})

\* calls of names no entry declares: $U beside a call of A, and $AB, of which
\* the declared name A is a prefix
UndeclaredDoc ==
    Input(Obj(<< << <<"A">>,Str(<<"x">>)>>,<< <<"k">>,Str(<<"$","U","/","$","A">>)>> >>),
          "valid", <<>>,
          <<>>,
          {})

UndeclaredPrefixDoc ==
    Input(Obj(<< << <<"A">>,Str(<<"x">>)>>,<< <<"k">>,Str(<<"$","A","B","/","$","A">>)>> >>),
          "valid", <<>>,
          <<>>,
          {})

SampleInputs == {UndeclaredDoc, UndeclaredPrefixDoc, CycleDoc, CyclePrefixDoc, CycleDigitDoc, DigitSelfDoc,
             DigitSwapDoc, CyclePathDoc, LongerNameDoc, DiamondDoc,
             BackslashDoc, SlashOnlyDoc, ScenarioDoc,
             ValueNamedPathDoc, NestedPathDoc, NumberCallDoc, EmptyPathDoc, ExtendHostDoc,
             RepairedDoc, BrokenDoc, UndecodableDoc}

Inputs == ResolveInputs \cup TreeInputs \cup PathInputs \cup SampleInputs

(***************************************************************************)
(* Package.__init__ and its steps.                                         *)
(***************************************************************************)
PkgInit ==
    /\ \E inp \in Inputs :
        /\ file = [status |-> inp.status, doc |-> inp.doc]
        /\ env_vars = inp.env
        /\ hconfig_plugin_paths = inp.hconfig
        /\ disk = inp.disk
    /\ raw_json = Null
    /\ config = <<>>
    /\ env_rows = <<>>
    /\ warnings = <<>>
    /\ plugin_paths = <<>>
    /\ stack = <<>>
    /\ pc = "load"
    /\ err = ""
    /\ resolve_calls = 0
    /\ last_sub = NoSub
    /\ pass_start = <<>>

Raise(exception) ==
    /\ pc' = "raised"
    /\ err' = exception
    /\ stack' = <<>>

\* Package._load: a file that does not parse records a warning and is parsed
\* again with the repairing decoder; a file that still fails gives {}.  Only
\* json.decoder.JSONDecodeError is caught around the first json.load: a file
\* whose bytes do not decode (UnicodeDecodeError) fails it with another error
Load ==
    /\ pc = "load"
    /\ IF file.status = "undecodable"
       THEN /\ Raise("UnicodeDecodeError")
            /\ UNCHANGED <<raw_json, config, warnings>>
       ELSE /\ LET data == IF file.status = "broken" THEN Obj(<<>>) ELSE file.doc
               IN  /\ raw_json' = data
                   /\ config' = data
            /\ warnings' = IF file.status = "valid" THEN warnings
                           ELSE Append(warnings, InvalidJsonWarning)
            /\ pc' = "flatten"
            /\ UNCHANGED <<stack, err>>
    /\ UNCHANGED <<file, env_vars, env_rows, hconfig_plugin_paths, disk, plugin_paths,
                   resolve_calls, last_sub, pass_start>>
    /\ UNCHANGED repo_vars
    /\ UNCHANGED ui_vars

\* self.config = self._flatten_package(self.config)
Flatten ==
    /\ pc = "flatten"
    /\ config' = _flatten_package(config, <<>>)
    /\ pc' = "resolve"
    /\ UNCHANGED <<file, raw_json, env_vars, env_rows, hconfig_plugin_paths, disk, warnings,
                   plugin_paths, stack, err, resolve_calls, last_sub, pass_start>>
    /\ UNCHANGED repo_vars
    /\ UNCHANGED ui_vars

\* Package.resolve up to the loop of _resolve_vars: the host variables are
\* prepended as rows of their own and _standard_paths runs over the merged list
Resolve ==
    /\ \/ pc = "resolve"
       \/ pc = "done" /\ resolve_calls < MaxResolveCalls
    /\ LET rows == [i \in 1..Len(env_vars) |-> <<Str(env_vars[i][1]), Str(env_vars[i][2])>>]
           merged == _standard_paths(rows \o config)
       IN  /\ env_rows' = SubSeq(merged, 1, Len(rows))
           /\ config' = SubSeq(merged, Len(rows) + 1, Len(merged))
    /\ resolve_calls' = resolve_calls + 1
    /\ last_sub' = NoSub
    /\ pass_start' = <<>>
    /\ pc' = "resolve_loop"
    /\ UNCHANGED <<file, raw_json, env_vars, hconfig_plugin_paths, disk, warnings,
                   plugin_paths, stack, err>>
    /\ UNCHANGED repo_vars
    /\ UNCHANGED ui_vars

\* one iteration of the loop of _resolve_vars, up to its call of _replace_var_calls
ResolvePass ==
    /\ pc = "resolve_loop"
    /\ IF HasShortPath(Merged)
       THEN Raise("IndexError") /\ UNCHANGED <<env_rows, pass_start>>
       ELSE LET potential == potential_var_names(Merged)
                calls == var_calls(Merged, potential)
            IN  IF calls = <<>> \/ warnings # <<>>
                THEN /\ pc' = IF resolve_calls = 1 THEN "extract" ELSE "done"
                     /\ env_rows' = <<>>
                     /\ UNCHANGED <<stack, err, pass_start>>
                ELSE /\ stack' = <<[var_inits |-> var_inits(Merged, calls),
                                    calls |-> calls, potential |-> potential]>>
                     /\ pc' = "replace"
                     /\ pass_start' = Merged
                     /\ UNCHANGED <<env_rows, err>>
    /\ UNCHANGED <<file, raw_json, config, env_vars, hconfig_plugin_paths, disk, warnings,
                   plugin_paths, resolve_calls, last_sub>>
    /\ UNCHANGED repo_vars
    /\ UNCHANGED ui_vars

\* _replace_var_calls: the body of its loop for the next call of the innermost frame
ReplaceVarCall ==
    /\ pc = "replace"
    /\ stack # <<>>
    /\ Last(stack).calls # <<>>
    /\ LET frame == Last(stack)
           c == Head(frame.calls)
           rest == [stack EXCEPT ![Len(stack)].calls = Tail(@)]
       IN  IF c.call \in c.processed
           THEN \* circular reference: warn and return None; only a nested caller ignores it
                /\ warnings' = Append(warnings, CircularWarning(c.call))
                /\ IF Len(stack) = 1
                   THEN Raise("TypeError")
                   ELSE stack' = Front(stack) /\ UNCHANGED <<pc, err>>
                /\ UNCHANGED <<config, env_rows, last_sub>>
           ELSE LET processed == c.processed \cup {c.call}
                    indexes == var_init_indexes(frame.var_inits, c.call)
                    priority == _split_indexes(indexes, c.call_i)
                IN  IF indexes = <<>>
                    THEN Raise("IndexError") /\ UNCHANGED <<config, env_rows, warnings, last_sub>>
                    ELSE LET var_index == var_index_of(priority)
                             var == init_at(frame.var_inits, var_index)
                             old == Last(Merged[c.call_i + 1]).str
                         IN  IF ~IsStr(var.value)
                             THEN Raise("TypeError")
                                  /\ UNCHANGED <<config, env_rows, warnings, last_sub>>
                             ELSE LET new_value == re_sub_ignorecase(<<"$">> \o c.call, var.value.str, old)
                                      data == SetValue(Merged, c.call_i + 1, Str(new_value))
                                      new_var_calls ==
                                        LET names == new_calls_of_value(new_value, frame.potential)
                                        IN  [k \in 1..Len(names) |->
                                                [call |-> names[k], call_i |-> c.call_i,
                                                 processed |-> processed]]
                                  IN  /\ Len(new_value) <= MaxValueLen
                                      /\ env_rows' = SubSeq(data, 1, Len(env_rows))
                                      /\ config' = SubSeq(data, Len(env_rows) + 1, Len(data))
                                      /\ stack' = IF Contains(new_value, "$")
                                                  THEN Append(rest,
                                                        [var_inits |-> var_inits(data, new_var_calls),
                                                         calls |-> new_var_calls,
                                                         potential |-> frame.potential])
                                                  ELSE rest
                                      /\ last_sub' = [call |-> c.call, call_i |-> c.call_i,
                                                      var_index |-> var_index, depth |-> Len(stack),
                                                      old |-> old, repl |-> var.value.str,
                                                      new |-> new_value, decls |-> indexes]
                                      /\ UNCHANGED <<pc, err, warnings>>
    /\ UNCHANGED <<file, raw_json, env_vars, hconfig_plugin_paths, disk, plugin_paths,
                   resolve_calls, pass_start>>
    /\ UNCHANGED repo_vars
    /\ UNCHANGED ui_vars

\* _replace_var_calls: the loop is over, return data
ReplaceReturn ==
    /\ pc = "replace"
    /\ stack # <<>>
    /\ Last(stack).calls = <<>>
    /\ stack' = Front(stack)
    /\ pc' = IF Len(stack) = 1 THEN "resolve_loop" ELSE "replace"
    /\ UNCHANGED <<file, raw_json, config, env_vars, env_rows, hconfig_plugin_paths, disk,
                   warnings, plugin_paths, err, resolve_calls, last_sub, pass_start>>
    /\ UNCHANGED repo_vars
    /\ UNCHANGED ui_vars

\* Package.extract_data, the last step of the constructor
ExtractData ==
    /\ pc = "extract"
    /\ IF _find_plugin_paths_raises(config)
       THEN Raise("IndexError") /\ UNCHANGED plugin_paths
       ELSE /\ plugin_paths' = plugin_paths \o extract_data(config)
            /\ pc' = "done"
            /\ UNCHANGED <<stack, err>>
    /\ UNCHANGED <<file, raw_json, config, env_vars, env_rows, hconfig_plugin_paths, disk,
                   warnings, resolve_calls, last_sub, pass_start>>
    /\ UNCHANGED repo_vars
    /\ UNCHANGED ui_vars

PkgNext == Load \/ Flatten \/ Resolve \/ ResolvePass \/ ReplaceVarCall \/ ReplaceReturn
           \/ ExtractData

(***************************************************************************)
(* Package.enable: the property read through is_enabled and its setter.    *)
(***************************************************************************)
MaxEnableOps == 3        \* reads and writes of Package.enable on one package

ENABLE_KEY == <<"e","n","a","b","l","e">>
FALSE_STR == <<"f","a","l","s","e">>
TRUE_STR == <<"t","r","u","e">>

IsBool(x) == "bool" \in DOMAIN x

\* Package.config_keys and Package.config_values: path[-2] and path[-1]
config_keys(data) == [i \in 1..Len(data) |-> data[i][Len(data[i]) - 1]]
config_values(data) == [i \in 1..Len(data) |-> Last(data[i])]

\* list.index: the first position of an item
list_index(list, item) ==
    CHOOSE i \in 1..Len(list) : list[i] = item /\ \A j \in 1..(i - 1) : list[j] # item

\* Package.is_enabled
is_enabled(data) ==
    IF Str(ENABLE_KEY) \in Range(config_keys(data))
    THEN LET enabled == config_values(data)[list_index(config_keys(data), Str(ENABLE_KEY))]
         IN  IF IsStr(enabled) /\ lower(enabled.str) = FALSE_STR THEN Bool(FALSE)
             ELSE IF IsStr(enabled) /\ lower(enabled.str) = TRUE_STR THEN Bool(TRUE)
             ELSE enabled
    ELSE Bool(TRUE)

\* dict[key] = value: the key keeps its place, a new key goes last
dict_set(node, key, value) ==
    IF \E k \in 1..Len(node.obj) : node.obj[k][1] = key
    THEN Obj([k \in 1..Len(node.obj) |->
                IF node.obj[k][1] = key THEN <<key, value>> ELSE node.obj[k]])
    ELSE Obj(Append(node.obj, <<key, value>>))

\* the documents whose enable is read and written
EnableValues == {Bool(TRUE), Bool(FALSE), Str(FALSE_STR), Str(<<"F","a","l","s","e">>),
                 Str(<<"T","R","U","E">>), Str(<<"n","o">>), Num(0), Null}
EnableDocs ==
    {Obj(<< <<(<<"A">>), Str(<<"x">>)>>, <<ENABLE_KEY, v>> >>) : v \in EnableValues}
    \cup {Obj(<< <<(<<"A">>), Str(<<"x">>)>> >>),
          Obj(<< <<ENV_KEY, Arr(<<Obj(<< <<ENABLE_KEY, Str(FALSE_STR)>> >>)>>)>> >>),
          Obj(<< <<ENABLE_KEY, Str(<<"$","E">>)>>, <<(<<"E">>), Str(FALSE_STR)>> >>),
          Arr(<<Str(<<"x">>)>>)}
EnableInputs ==
    {Input(doc, "valid", <<>>, <<>>, {}) : doc \in EnableDocs}
    \cup {RepairedDoc, BrokenDoc}
Toggles == {Bool(TRUE), Bool(FALSE), Num(1)}

\* a package of one of these documents, about to be constructed
EnableInit ==
    /\ \E inp \in EnableInputs :
        /\ file = [status |-> inp.status, doc |-> inp.doc]
        /\ env_vars = inp.env
        /\ hconfig_plugin_paths = inp.hconfig
        /\ disk = inp.disk
    /\ raw_json = Null
    /\ config = <<>>
    /\ env_rows = <<>>
    /\ warnings = <<>>
    /\ plugin_paths = <<>>
    /\ stack = <<>>
    /\ pc = "load"
    /\ err = ""
    /\ resolve_calls = 0
    /\ last_sub = NoSub
    /\ pass_start = <<>>
    /\ remote_url = <<>>
    /\ project_owner = <<>>
    /\ project_name = <<>>
    /\ _tags = <<>>
    /\ user_data = [exists |-> FALSE, data |-> <<>>]
    /\ data_writes = 0
    /\ remote_size = 0
    /\ fetch_pc = "idle"
    /\ paginate = TRUE
    /\ cache = TRUE
    /\ pagination_page = 1
    /\ all_tags = <<>>
    /\ requests = <<>>
    /\ responses = <<>>
    /\ fetch_result = <<>>
    /\ fetch_err = ""
    /\ fetches = 0
    /\ new_tags = Null
    /\ old_tags = <<>>
    /\ tags_err = ""
    /\ _enable = Null
    /\ enable_read = [unread |-> TRUE]
    /\ enable_err = ""
    /\ enable_ops = 0
    /\ dumped = Null
    /\ latest_pc = "idle"
    /\ latest_tag = <<>>
    /\ cell_data = <<>>
    /\ sync_row = 0
    /\ tracker = ""
    /\ status_bar = ""
    /\ clicks = 0
    /\ batch_pc = "idle"
    /\ batch_row = 0
    /\ batch_exception = "unbound"
    /\ started = <<>>
    /\ batches = 0
    /\ cache_call = [op |-> "none"]
    /\ cache_calls = 0
    /\ writers = <<>>
    /\ walk = <<>>
    /\ pkgs = <<>>

\* the two TypeErrors of the setter
NotBoolError == "TypeError: enable must be a bool."
ListIndexError == "TypeError: list indices must be integers or slices, not str"

\* a read of Package.enable of a constructed package
ReadEnable ==
    /\ pc = "done"
    /\ enable_ops < MaxEnableOps
    /\ enable_ops' = enable_ops + 1
    /\ enable_read' = is_enabled(config)
    /\ UNCHANGED <<_enable, enable_err, dumped>>
    /\ UNCHANGED <<pkg_vars, repo_vars, sync_vars, batch_vars, cache_vars, scan_vars>>

\* Package.enable = toggle: the entry of the flattened config is set or put
\* first, the raw document gets the top-level key and is dumped to the file
WriteEnable ==
    /\ pc = "done"
    /\ enable_ops < MaxEnableOps
    /\ enable_ops' = enable_ops + 1
    /\ \E toggle \in Toggles :
        IF ~IsBool(toggle)
        THEN /\ enable_err' = NotBoolError
             /\ UNCHANGED <<_enable, config, raw_json, file, dumped>>
        ELSE /\ _enable' = toggle
             /\ config' = IF Str(ENABLE_KEY) \in Range(config_keys(config))
                          THEN SetValue(config, list_index(config_keys(config), Str(ENABLE_KEY)), toggle)
                          ELSE << <<Str(ENABLE_KEY), toggle>> >> \o config
             /\ IF IsObj(raw_json)
                THEN /\ raw_json' = dict_set(raw_json, ENABLE_KEY, toggle)
                     /\ file' = [status |-> "valid", doc |-> raw_json']
                     /\ dumped' = toggle
                     /\ enable_err' = ""
                ELSE \* a list takes no str index: TypeError before the file is opened
                     /\ enable_err' = ListIndexError
                     /\ UNCHANGED <<raw_json, file, dumped>>
    /\ UNCHANGED <<env_vars, env_rows, hconfig_plugin_paths, disk, warnings, plugin_paths,
                   stack, pc, err, resolve_calls, last_sub, pass_start, enable_read>>
    /\ UNCHANGED <<repo_vars, sync_vars, batch_vars, cache_vars, scan_vars>>

\* refresh_table: get_houdini_data constructs a new Package of the same file,
\* which replaces the one of the table
RefreshTable ==
    /\ pc \in {"done", "raised"}
    /\ enable_ops > 0
    /\ _enable # Null \/ enable_read # [unread |-> TRUE]
    /\ raw_json' = Null
    /\ config' = <<>>
    /\ env_rows' = <<>>
    /\ warnings' = <<>>
    /\ plugin_paths' = <<>>
    /\ stack' = <<>>
    /\ pc' = "load"
    /\ err' = ""
    /\ resolve_calls' = 0
    /\ last_sub' = NoSub
    /\ pass_start' = <<>>
    /\ _enable' = Null
    /\ enable_read' = [unread |-> TRUE]
    /\ enable_err' = ""
    /\ UNCHANGED <<file, env_vars, hconfig_plugin_paths, disk, enable_ops, dumped>>
    /\ UNCHANGED <<repo_vars, sync_vars, batch_vars, cache_vars, scan_vars>>

EnableNext == PkgNext \/ ReadEnable \/ WriteEnable \/ RefreshTable

(***************************************************************************)
(* _Repo: the known tags, their version key and the merge of a new list.   *)
(* A tag is a Python str; a tag list is a sequence of tags.                *)
(***************************************************************************)
\* the characters of tag names and URLs in code point order, and the rank of a
\* character in it: ord() up to an order-preserving renumbering
CodePoints == <<"-", ".", "/">> \o Digits \o <<":">> \o UpperCase \o <<"_">> \o LowerCase
ord(ch) == CHOOSE i \in 1..Len(CodePoints) : CodePoints[i] = ch

\* int(part) of a string of decimal digits
RECURSIVE int(_)
int(part) ==
    IF part = <<>> THEN 0
    ELSE int(Front(part)) * 10 + ((CHOOSE i \in 1..10 : Digits[i] = Last(part)) - 1)

RECURSIVE takewhile_digit(_)
takewhile_digit(s) ==
    IF s = <<>> \/ ~isdigit(Head(s)) THEN <<>> ELSE <<Head(s)>> \o takewhile_digit(Tail(s))

RECURSIVE takewhile_nondigit(_)
takewhile_nondigit(s) ==
    IF s = <<>> \/ isdigit(Head(s)) THEN <<>> ELSE <<Head(s)>> \o takewhile_nondigit(Tail(s))

\* re.split("([0-9]+)", version): the text between the digit runs and, the
\* pattern being a group, the digit runs themselves, alternating
RECURSIVE re_split_digits(_)
re_split_digits(version) ==
    LET text == takewhile_nondigit(version)
        rest == SubSeq(version, Len(text) + 1, Len(version))
        run == takewhile_digit(rest)
    IN  IF rest = <<>> THEN <<text>>
        ELSE <<text, run>> \o re_split_digits(SubSeq(rest, Len(run) + 1, Len(rest)))

\* part.isdigit(): a non-empty string of digits
part_isdigit(part) == part # <<>> /\ \A i \in 1..Len(part) : isdigit(part[i])

\* _Repo._version_key
_version_key(version) ==
    LET parts == re_split_digits(version)
    IN  [i \in 1..Len(parts) |->
            IF part_isdigit(parts[i]) THEN Num(int(parts[i])) ELSE Str(parts[i])]

\* a < b for two str, two int and two keys (lists compare item by item, a
\* proper prefix being the smaller).  The parts of a key alternate between
\* str and int from a str on, so parts at one position have one type.
str_less(a, b) ==
    \E i \in 1..(Len(b)) :
        /\ i <= Len(a) + 1
        /\ \A j \in 1..(i - 1) : a[j] = b[j]
        /\ (i = Len(a) + 1 \/ ord(a[i]) < ord(b[i]))

part_less(p, q) == IF IsNum(p) THEN p.num < q.num ELSE str_less(p.str, q.str)

RECURSIVE list_less(_, _, _)
list_less(a, b, i) ==
    IF i > Len(b) THEN FALSE
    ELSE IF i > Len(a) THEN TRUE
    ELSE IF a[i] = b[i] THEN list_less(a, b, i + 1)
    ELSE part_less(a[i], b[i])

key_less(a, b) == list_less(a, b, 1)

\* sorted(versions, key=self._version_key, reverse=True) for a set: a version
\* comes after the versions of greater keys; the sort is stable, so versions of
\* equal keys stay in the iteration order of the set, which is any order
sorted_reverse(versions) ==
    LET keyed == {<<_version_key(v), v>> : v \in versions}
        keys == {p[1] : p \in keyed}
        tied == IF Cardinality(keys) = Cardinality(keyed) THEN {}
                ELSE {p \in keyed : \E q \in keyed : q # p /\ q[1] = p[1]}
        orders == {f \in [1..Cardinality(tied) -> tied] :
                      \A i, j \in DOMAIN f : i # j => f[i] # f[j]}
    IN  {LET before(p, q) == \/ key_less(p[1], q[1])
                             \/ /\ p \in tied
                                /\ q[1] = p[1]
                                /\ q # p
                                /\ (CHOOSE i \in DOMAIN f : f[i] = q)
                                     < (CHOOSE i \in DOMAIN f : f[i] = p)
             placed == {<<Cardinality({q \in keyed : before(p, q)}) + 1, p[2]>> : p \in keyed}
         IN  [i \in 1..Cardinality(keyed) |-> (CHOOSE p \in placed : p[1] = i)[2]]
         : f \in orders}

\* the two lists joined as they are, and the union sorted whether or not the
\* lists share a tag
merge_unsorted(tags, new) ==
    {tags \o SelectSeq(new, LAMBDA tag : tag \notin Range(tags))}

merge_always(tags, new) == sorted_reverse(Range(tags) \cup Range(new))

\* _Repo._merge_version_lists: the lists it may return
_merge_version_lists(tags, new) ==
    LET old_versions_set == Range(tags)
        new_versions_set == Range(new)
        common_versions == old_versions_set \cap new_versions_set
    IN  IF common_versions # {}
        THEN sorted_reverse(old_versions_set \cup new_versions_set)
        ELSE {new}

\* the setter of _Repo.tags for a value None, str or list: the outcomes
\* [tags, err] it may have from the known list tags
all_str(value) == IsArr(value) /\ \A i \in 1..Len(value.arr) : IsStr(value.arr[i])

tags_setter(tags, value) ==
    IF value = Null \/ value = Arr(<<>>) THEN {[tags |-> tags, err |-> ""]}
    ELSE IF ~IsStr(value) /\ ~all_str(value) THEN {[tags |-> tags, err |-> "TypeError"]}
    ELSE LET new == IF IsStr(value) THEN <<value.str>>
                    ELSE [i \in 1..Len(value.arr) |-> value.arr[i].str]
         IN  IF tags = new THEN {[tags |-> tags, err |-> ""]}
             ELSE IF tags = <<>> THEN {[tags |-> new, err |-> ""]}
             ELSE {[tags |-> merged, err |-> ""] : merged \in _merge_version_lists(tags, new)}

\* _Repo.tag_latest, <<>> for None
tag_latest(tags) == IF tags # <<>> THEN tags[1] ELSE <<>>

(***************************************************************************)
(* UserDataManager: the user data file, a dict of entries keyed by tool    *)
(* name.  The data is a function from the names in the file to entries.    *)
(***************************************************************************)
NoData == [n \in {} |-> <<>>]

\* _read_data: a missing file is created empty
_read_data(ud) == IF ud.exists THEN ud.data ELSE NoData

\* an update that writes the entry of its tool alone
update_tags_alone(ud, tool_name, tags) ==
    [exists |-> TRUE,
     data |-> (tool_name :> [local_config_path |-> <<>>, tags |-> tags])]

\* an update that creates a missing entry and leaves the tags of the entry alone
update_tags_created(ud, tool_name, tags) ==
    LET data == _read_data(ud)
    IN  [exists |-> TRUE,
         data |-> [n \in DOMAIN data \cup {tool_name} |->
                      IF n \in DOMAIN data THEN data[n]
                      ELSE [local_config_path |-> <<>>, tags |-> <<>>]]]

\* update_tags: read, create the entry if it is missing, set its tags, write
update_tags(ud, tool_name, tags) ==
    LET data == _read_data(ud)
        entry == IF tool_name \in DOMAIN data THEN data[tool_name]
                 ELSE [local_config_path |-> <<>>, tags |-> <<>>]
    IN  [exists |-> TRUE,
         data |-> [n \in DOMAIN data \cup {tool_name} |->
                      IF n = tool_name THEN [entry EXCEPT !.tags = tags] ELSE data[n]]]

\* get_entry: the entry of a tool, Null for None
get_entry(ud, tool_name) ==
    IF tool_name = <<>> THEN Null
    ELSE IF tool_name \in DOMAIN _read_data(ud) THEN _read_data(ud)[tool_name]
    ELSE Null

(***************************************************************************)
(* GitProject: the remote repository and the fetch of its tags.            *)
(***************************************************************************)
tags_per_request == 100   \* GitHub's API per_page max
MaxFullPages == 2         \* full pages a remote repository holds
MaxFetches == 1           \* calls of fetch_remote_tags on one project
MaxTagListLen == 2        \* tags of a list assigned to _Repo.tags

\* GitProject._extract_owner: the owner and the name from the remote url
_extract_owner(url) ==
    LET split_url == split(url, "/")
    IN  [owner |-> split_url[Len(split_url) - 1],
         name |-> split(Last(split_url), ".")[1]]

\* str(n) of a natural number, and the tag "v<n>"
RECURSIVE str(_)
str(n) == IF n < 10 THEN <<Digits[n + 1]>> ELSE str(n \div 10) \o <<Digits[(n % 10) + 1]>>
Version(n) == <<"v">> \o str(n)

\* the tags of a remote repository of n tags as the API lists them, and one
\* page of them: the items from (page - 1) * per_page on, per_page at most
RemoteTags(n) == [k \in 1..n |-> Version(n - k + 1)]
Page(n, per_page, page) ==
    LET first == (page - 1) * per_page + 1
        last == IF page * per_page < n THEN page * per_page ELSE n
    IN  SubSeq(RemoteTags(n), first, last)

\* the status codes and the connection failure a request may end in
OK == 200
FORBIDDEN == 403
NOT_FOUND == 404
Statuses == {OK, FORBIDDEN, NOT_FOUND}

\* a _make_request that takes 403 for any other failure status
_make_request_lenient(outcome) ==
    IF "error" \in DOMAIN outcome THEN "RequestConnectionError"
    ELSE IF outcome.status_code = OK THEN "response"
    ELSE "None"

\* a _make_request that swallows a failed connection like an unmapped status
_make_request_silent(outcome) ==
    IF "error" \in DOMAIN outcome THEN "None"
    ELSE IF outcome.status_code = OK THEN "response"
    ELSE IF outcome.status_code = FORBIDDEN THEN "RateLimitError"
    ELSE "None"

\* a _make_request that raises for every status other than 200
_make_request_strict(outcome) ==
    IF "error" \in DOMAIN outcome THEN "RequestConnectionError"
    ELSE IF outcome.status_code = OK THEN "response"
    ELSE "RateLimitError"

\* GitProject._make_request: what it does with the outcome of requests.get
_make_request(outcome) ==
    IF "error" \in DOMAIN outcome THEN "RequestConnectionError"
    ELSE IF outcome.status_code = OK THEN "response"
    ELSE IF outcome.status_code = FORBIDDEN THEN "RateLimitError"
    ELSE "None"

\* a test that takes a full page for the last one
full_or_short_page(tags) == Len(tags) <= tags_per_request

\* _fetch_all_pages: no more tags on future page requests
short_page(tags) == Len(tags) < tags_per_request

(***************************************************************************)
(* The projects, user data files and tag values the model draws from.      *)
(***************************************************************************)
\* "https://github.com/ann/tool.git"
GITHUB == <<"h","t","t","p","s",":","/","/","g","i","t","h","u","b",".","c","o","m","/">>
Urls == {GITHUB \o <<"a","n","n","/","t","o","o","l",".","g","i","t">>}
TOOL_NAME == <<"t","o","o","l">>
OTHER_NAME == <<"o","t","h","e","r">>

Entry(tags) == [local_config_path |-> <<>>, tags |-> tags]
KnownLists == {<<>>, <<Version(2), Version(1)>>, <<<<"w","7">>>>}
DataDicts ==
    {NoData}
    \cup {(TOOL_NAME :> Entry(known)) @@ (OTHER_NAME :> Entry(<<Version(5)>>)) : known \in KnownLists}
UserDataFiles == {[exists |-> TRUE, data |-> d] : d \in DataDicts}

PageRemainders == {0, 2, 37}
RemoteSizes == {full * tags_per_request + more : full \in 0..MaxFullPages, more \in PageRemainders}

Outcomes == {[status_code |-> code] : code \in Statuses} \cup {[error |-> "ConnectionError"]}

TagPool == {Version(1), Version(2), Version(3)}
StrList(tags) == Arr([i \in 1..Len(tags) |-> Str(tags[i])])
TagValues ==
    {Null, Arr(<<Num(1)>>), StrList(<<Version(10), Version(2)>>),
     StrList(<<<<"v","0","1">>, Version(1)>>),
     StrList(<<Version(1), <<"v","0","1">>>>)}
    \cup {Str(tag) : tag \in TagPool}
    \cup {StrList(tags) : tags \in SeqsUpTo(TagPool, MaxTagListLen)}

(***************************************************************************)
(* The states of the parts a specification leaves alone.                   *)
(***************************************************************************)
NoPackage ==
    /\ file = [status |-> "valid", doc |-> Obj(<<>>)]
    /\ env_vars = <<>>
    /\ hconfig_plugin_paths = <<>>
    /\ disk = {}
    /\ raw_json = Null
    /\ config = <<>>
    /\ env_rows = <<>>
    /\ warnings = <<>>
    /\ plugin_paths = <<>>
    /\ stack = <<>>
    /\ pc = "none"
    /\ err = ""
    /\ resolve_calls = 0
    /\ last_sub = NoSub
    /\ pass_start = <<>>

NoFetch ==
    /\ fetch_pc = "idle"
    /\ paginate = TRUE
    /\ cache = TRUE
    /\ pagination_page = 1
    /\ all_tags = <<>>
    /\ requests = <<>>
    /\ responses = <<>>
    /\ fetch_result = <<>>
    /\ fetch_err = ""
    /\ fetches = 0

NoAssignment ==
    /\ new_tags = Null
    /\ old_tags = <<>>
    /\ tags_err = ""

NoProject ==
    /\ remote_url = <<>>
    /\ project_owner = <<>>
    /\ project_name = <<>>
    /\ _tags = <<>>
    /\ user_data = [exists |-> FALSE, data |-> NoData]
    /\ data_writes = 0
    /\ remote_size = 0
    /\ NoFetch
    /\ NoAssignment

\* Package.enable neither read nor written
Unread == [unread |-> TRUE]
NoEnable ==
    /\ _enable = Null
    /\ enable_read = Unread
    /\ enable_err = ""
    /\ enable_ops = 0
    /\ dumped = Null

\* no fetch_latest_remote_tag call, no table and no sync button handler running
NoSync ==
    /\ latest_pc = "idle"
    /\ latest_tag = <<>>
    /\ cell_data = <<>>
    /\ sync_row = 0
    /\ tracker = ""
    /\ status_bar = ""
    /\ clicks = 0

NoBatch ==
    /\ batch_pc = "idle"
    /\ batch_row = 0
    /\ batch_exception = "unbound"
    /\ started = <<>>
    /\ batches = 0

NoCall == [op |-> "none"]
NoCache ==
    /\ cache_call = NoCall
    /\ cache_calls = 0
    /\ writers = <<>>

\* no scan of a packages directory
NoScan ==
    /\ walk = <<>>
    /\ pkgs = <<>>

NoUi == NoEnable /\ NoSync /\ NoBatch /\ NoCache /\ NoScan

(***************************************************************************)
(* GitProject.__init__ and fetch_remote_tags.                              *)
(***************************************************************************)
\* a project of a remote repository, its known tags read from the user data
\* (init_repo_data), or a project without a remote and without a name
FetchInit ==
    /\ NoPackage
    /\ remote_url \in Urls \cup {<<>>}
    /\ project_owner = IF remote_url = <<>> THEN <<>> ELSE _extract_owner(remote_url).owner
    /\ project_name = IF remote_url = <<>> THEN <<>> ELSE _extract_owner(remote_url).name
    /\ user_data \in UserDataFiles
    /\ data_writes = 0
    /\ LET entry == get_entry(user_data, project_name)
       IN  _tags = IF entry = Null THEN <<>>
                   ELSE (CHOOSE out \in tags_setter(<<>>, StrList(entry.tags)) : TRUE).tags
    /\ remote_size \in RemoteSizes
    /\ NoFetch
    /\ NoAssignment
    /\ NoUi

\* fetch_remote_tags(paginate, cache) up to its first request
FetchRemoteTags ==
    /\ fetch_pc = "idle"
    /\ latest_pc # "fetching"
    /\ fetches < MaxFetches
    /\ fetches' = fetches + 1
    /\ paginate' \in BOOLEAN
    /\ cache' \in BOOLEAN
    /\ pagination_page' = 1
    /\ all_tags' = <<>>
    /\ requests' = <<>>
    /\ responses' = <<>>
    /\ fetch_err' = ""
    /\ IF remote_url = <<>>
       THEN fetch_result' = <<>> /\ UNCHANGED fetch_pc
       ELSE fetch_pc' = "request" /\ UNCHANGED fetch_result
    /\ UNCHANGED <<remote_url, project_owner, project_name, _tags, user_data, data_writes,
                   remote_size,
                   new_tags, old_tags, tags_err>>
    /\ UNCHANGED pkg_vars
    /\ UNCHANGED ui_vars

\* one request of _fetch_all_pages or _fetch_single_page: _make_request and
\* what the caller does with the response
SendRequest ==
    /\ fetch_pc = "request"
    /\ \E outcome \in Outcomes :
        LET params == IF paginate
                      THEN [per_page |-> tags_per_request, page |-> pagination_page]
                      ELSE [per_page |-> tags_per_request]
            tags == Page(remote_size, params.per_page, IF paginate THEN params.page ELSE 1)
            response_tags == _make_request(outcome)
        IN  /\ requests' = Append(requests, params)
            /\ responses' = Append(responses,
                    [outcome |-> outcome,
                     tags |-> IF outcome = [status_code |-> OK] THEN tags ELSE <<>>])
            /\ IF response_tags \in {"RequestConnectionError", "RateLimitError"}
               THEN /\ fetch_err' = response_tags
                    /\ fetch_pc' = "idle"
                    /\ UNCHANGED <<all_tags, pagination_page>>
               ELSE IF response_tags = "None"
               THEN /\ fetch_pc' = "fetched"
                    /\ UNCHANGED <<all_tags, pagination_page, fetch_err>>
               ELSE IF ~paginate
               THEN /\ all_tags' = tags
                    /\ fetch_pc' = "fetched"
                    /\ UNCHANGED <<pagination_page, fetch_err>>
               ELSE IF tags = <<>>
               THEN /\ fetch_pc' = "fetched"
                    /\ UNCHANGED <<all_tags, pagination_page, fetch_err>>
               ELSE /\ all_tags' = all_tags \o tags
                    /\ IF short_page(tags)
                       THEN fetch_pc' = "fetched" /\ UNCHANGED pagination_page
                       ELSE pagination_page' = pagination_page + 1 /\ UNCHANGED fetch_pc
                    /\ UNCHANGED fetch_err
    /\ UNCHANGED <<remote_url, project_owner, project_name, _tags, user_data, data_writes,
                   remote_size,
                   paginate, cache, fetch_result, fetches, new_tags, old_tags, tags_err>>
    /\ UNCHANGED pkg_vars
    /\ UNCHANGED ui_vars

\* fetch_remote_tags from the return of the page fetch on: the tags are
\* assigned to self.remote.tags and the known tags written to the user data
FetchReturn ==
    /\ fetch_pc = "fetched"
    /\ IF cache
       THEN \E out \in tags_setter(_tags, StrList(all_tags)) :
                /\ _tags' = out.tags
                /\ new_tags' = StrList(all_tags)
                /\ old_tags' = _tags
                /\ tags_err' = out.err
                /\ user_data' = update_tags(user_data, project_name, out.tags)
                /\ data_writes' = data_writes + 1
       ELSE UNCHANGED <<_tags, new_tags, old_tags, tags_err, user_data, data_writes>>
    /\ fetch_result' = all_tags
    /\ fetch_pc' = "idle"
    /\ UNCHANGED <<remote_url, project_owner, project_name, remote_size, paginate, cache,
                   pagination_page, all_tags, requests, responses, fetch_err, fetches>>
    /\ UNCHANGED pkg_vars
    /\ UNCHANGED ui_vars

\* fetch_latest_remote_tag up to the first request of its fetch_remote_tags()
FetchLatestRemoteTag ==
    /\ fetch_pc = "idle"
    /\ latest_pc # "fetching"
    /\ fetches < MaxFetches
    /\ fetches' = fetches + 1
    /\ requests' = <<>>
    /\ responses' = <<>>
    /\ IF remote_url = <<>>
       THEN /\ latest_tag' = <<>>
            /\ latest_pc' = "returned"
            /\ UNCHANGED <<paginate, cache, pagination_page, all_tags, fetch_err, fetch_pc>>
       ELSE /\ paginate' = TRUE
            /\ cache' = TRUE
            /\ pagination_page' = 1
            /\ all_tags' = <<>>
            /\ fetch_err' = ""
            /\ fetch_pc' = "request"
            /\ latest_pc' = "fetching"
            /\ UNCHANGED latest_tag
    /\ UNCHANGED <<remote_url, project_owner, project_name, _tags, user_data, data_writes,
                   remote_size,
                   fetch_result, new_tags, old_tags, tags_err>>
    /\ UNCHANGED <<cell_data, sync_row, tracker, status_bar, clicks>>
    /\ UNCHANGED <<pkg_vars, enable_vars, batch_vars, cache_vars, scan_vars>>

\* fetch_latest_remote_tag after its fetch_remote_tags() has returned or raised
FetchLatestReturn ==
    /\ latest_pc = "fetching"
    /\ fetch_pc = "idle"
    /\ IF fetch_err # ""
       THEN latest_pc' = "raised" /\ UNCHANGED latest_tag
       ELSE latest_pc' = "returned" /\ latest_tag' = tag_latest(_tags)
    /\ UNCHANGED <<cell_data, sync_row, tracker, status_bar, clicks>>
    /\ UNCHANGED <<pkg_vars, repo_vars, enable_vars, batch_vars, cache_vars, scan_vars>>

FetchNext ==
    FetchRemoteTags \/ SendRequest \/ FetchReturn \/ FetchLatestRemoteTag \/ FetchLatestReturn

(***************************************************************************)
(* Assignments to _Repo.tags of a repository object on its own.            *)
(***************************************************************************)
(* The packages table: the sync button of a row (update_latest_tag) and    *)
(* the sync of all rows (fetch_all_package_remote_metadata).  The project  *)
(* variables hold the GitProject of the row whose handler is running.      *)
(***************************************************************************)
MaxRows == 3             \* rows of the packages table
MaxClicks == 1           \* clicks of the user on sync buttons
MaxBatches == 1          \* syncs of the whole table

TOOL_URL == GITHUB \o <<"a","n","n","/","t","o","o","l",".","g","i","t">>
OTHER_URL == GITHUB \o <<"a","n","n","/","o","t","h","e","r",".","g","i","t">>
RowRemotes == {[url |-> <<>>, size |-> 0], [url |-> TOOL_URL, size |-> 2],
               [url |-> OTHER_URL, size |-> 0]}

\* the user data file when the table is built: empty, or with known tags
TableFiles ==
    {[exists |-> TRUE, data |-> NoData],
     [exists |-> TRUE,
      data |-> (TOOL_NAME :> Entry(<<Version(2), Version(1)>>))
                  @@ (OTHER_NAME :> Entry(<<Version(5)>>))]}

\* a row: the package's GitProject as __init__ leaves it, and the LATEST cell
TableRow(remote, ud) ==
    LET name == IF remote.url = <<>> THEN <<>> ELSE _extract_owner(remote.url).name
        entry == get_entry(ud, name)
    IN  [url |-> remote.url,
         remote_size |-> remote.size,
         tags |-> IF entry = Null THEN <<>>
                  ELSE (CHOOSE out \in tags_setter(<<>>, StrList(entry.tags)) : TRUE).tags,
         latest |-> <<>>]

\* a row has a sync button when its package has a remote url
HasButton(row) == row.url # <<>>

BatchInit ==
    /\ NoPackage
    /\ remote_url = <<>>
    /\ project_owner = <<>>
    /\ project_name = <<>>
    /\ _tags = <<>>
    /\ user_data \in TableFiles
    /\ data_writes = 0
    /\ remote_size = 0
    /\ NoFetch
    /\ NoAssignment
    /\ NoEnable
    /\ NoBatch
    /\ NoCache
    /\ NoScan
    /\ latest_pc = "idle"
    /\ latest_tag = <<>>
    /\ \E remotes \in [1..MaxRows -> RowRemotes] :
          cell_data = [i \in 1..MaxRows |-> TableRow(remotes[i], user_data)]
    /\ sync_row = 0
    /\ tracker = ""
    /\ status_bar = ""
    /\ clicks = 0

\* clicked.emit() of the button of row i: update_latest_tag is entered
Emit(i) ==
    /\ sync_row' = i
    /\ latest_pc' = "called"
    /\ remote_url' = cell_data[i].url
    /\ project_owner' = _extract_owner(cell_data[i].url).owner
    /\ project_name' = _extract_owner(cell_data[i].url).name
    /\ _tags' = cell_data[i].tags
    /\ remote_size' = cell_data[i].remote_size
    /\ fetches' = 0
    /\ UNCHANGED <<user_data, data_writes, fetch_pc, paginate, cache, pagination_page, all_tags, requests,
                   responses, fetch_result, fetch_err, new_tags, old_tags, tags_err>>
    /\ UNCHANGED <<latest_tag, cell_data, tracker, status_bar>>
    /\ UNCHANGED <<pkg_vars, enable_vars, cache_vars, scan_vars>>

\* the user clicks the sync button of a row
Click ==
    /\ batch_pc \in {"idle", "raised"}
    /\ sync_row = 0
    /\ clicks < MaxClicks
    /\ clicks' = clicks + 1
    /\ \E i \in 1..Len(cell_data) : HasButton(cell_data[i]) /\ Emit(i)
    /\ UNCHANGED batch_vars

\* update_latest_tag: the call of pkg._git_project.fetch_latest_remote_tag()
CallFetchLatest ==
    /\ sync_row # 0
    /\ latest_pc = "called"
    /\ FetchLatestRemoteTag

\* update_latest_tag from the return of fetch_latest_remote_tag on
UpdateLatestTag ==
    /\ sync_row # 0
    /\ latest_pc \in {"returned", "raised"}
    /\ IF latest_pc = "raised"
       THEN /\ tracker' = fetch_err
            /\ status_bar' = fetch_err
            /\ cell_data' = [cell_data EXCEPT ![sync_row].tags = _tags]
       ELSE IF latest_tag = <<>>
       THEN /\ status_bar' = "Sync failed. No tag versions found on the remote repository"
            /\ cell_data' = [cell_data EXCEPT ![sync_row].tags = _tags]
            /\ UNCHANGED tracker
       ELSE /\ status_bar' = "Successfully synced metadata"
            /\ cell_data' = [cell_data EXCEPT ![sync_row].tags = _tags,
                                              ![sync_row].latest = latest_tag]
            /\ UNCHANGED tracker
    /\ sync_row' = 0
    /\ latest_pc' = "idle"
    /\ UNCHANGED <<latest_tag, clicks>>
    /\ UNCHANGED <<pkg_vars, repo_vars, enable_vars, batch_vars, cache_vars, scan_vars>>

\* fetch_all_package_remote_metadata up to its loop
BatchStart ==
    /\ batch_pc \in {"idle", "raised"}
    /\ sync_row = 0
    /\ batches < MaxBatches
    /\ batches' = batches + 1
    /\ batch_pc' = "loop"
    /\ batch_row' = 1
    /\ batch_exception' = "unbound"
    /\ started' = <<>>
    /\ UNCHANGED <<pkg_vars, repo_vars, enable_vars, sync_vars, cache_vars, scan_vars>>

\* one row of the loop: a row with a button is clicked, another one is passed
BatchRow ==
    /\ batch_pc = "loop"
    /\ IF batch_row > Len(cell_data)
       THEN /\ batch_pc' = "end"
            /\ UNCHANGED <<batch_row, batch_exception, started, batches>>
            /\ UNCHANGED <<pkg_vars, repo_vars, enable_vars, sync_vars, cache_vars, scan_vars>>
       ELSE IF ~HasButton(cell_data[batch_row])
       THEN /\ batch_row' = batch_row + 1
            /\ UNCHANGED <<batch_pc, batch_exception, started, batches>>
            /\ UNCHANGED <<pkg_vars, repo_vars, enable_vars, sync_vars, cache_vars, scan_vars>>
       ELSE /\ Emit(batch_row)
            /\ started' = Append(started, batch_row)
            /\ batch_pc' = "clicked"
            /\ UNCHANGED <<batch_row, batch_exception, batches, clicks>>

\* a loop that goes on to the next row whatever the tracker held
BatchCheckAll ==
    /\ batch_pc = "clicked"
    /\ sync_row = 0
    /\ batch_exception' = tracker
    /\ tracker' = ""
    /\ batch_row' = batch_row + 1
    /\ batch_pc' = "loop"
    /\ UNCHANGED <<started, batches>>
    /\ UNCHANGED <<latest_pc, latest_tag, cell_data, sync_row, status_bar, clicks>>
    /\ UNCHANGED <<pkg_vars, repo_vars, enable_vars, cache_vars, scan_vars>>

\* the loop after the handler has returned: exception = tracker.get_exception()
\* reads and clears the tracker, and an exception breaks the loop
BatchCheck ==
    /\ batch_pc = "clicked"
    /\ sync_row = 0
    /\ batch_exception' = tracker
    /\ tracker' = ""
    /\ IF tracker # ""
       THEN batch_pc' = "end" /\ UNCHANGED batch_row
       ELSE batch_pc' = "loop" /\ batch_row' = batch_row + 1
    /\ UNCHANGED <<started, batches>>
    /\ UNCHANGED <<latest_pc, latest_tag, cell_data, sync_row, status_bar, clicks>>
    /\ UNCHANGED <<pkg_vars, repo_vars, enable_vars, cache_vars, scan_vars>>

\* after the loop: the status message; exception is unbound when no row had
\* a button
BatchEnd ==
    /\ batch_pc = "end"
    /\ IF batch_exception = "unbound"
       THEN batch_pc' = "raised" /\ UNCHANGED status_bar
       ELSE /\ batch_pc' = "idle"
            /\ status_bar' =
                 IF batch_exception = "" THEN "Synced all metadata"
                 ELSE IF batch_exception = "RateLimitError"
                 THEN "GitHub API rate limiting occured at some point during table metadata sync"
                 ELSE "A connection error occured trying to reach the GitHub API"
    /\ UNCHANGED <<batch_row, batch_exception, started, batches>>
    /\ UNCHANGED <<latest_pc, latest_tag, cell_data, sync_row, tracker, clicks>>
    /\ UNCHANGED <<pkg_vars, repo_vars, enable_vars, cache_vars, scan_vars>>

BatchNext ==
    \/ Click \/ CallFetchLatest \/ SendRequest \/ FetchReturn \/ FetchLatestReturn
    \/ UpdateLatestTag \/ BatchStart \/ BatchRow \/ BatchCheck \/ BatchEnd

(***************************************************************************)
(* UserDataManager called directly: update_tags and get_entry on a user    *)
(* data file.                                                              *)
(***************************************************************************)
MaxCacheCalls == 3       \* calls of update_tags and get_entry on one file

LOCAL_PATH == <<"p">>
CacheNames == {TOOL_NAME, OTHER_NAME, <<>>}
CacheTagLists == {<<>>, <<Version(1)>>, <<Version(1), Version(3)>>}
CacheFiles ==
    UserDataFiles
    \cup {[exists |-> FALSE, data |-> NoData],
          [exists |-> TRUE,
           data |-> (TOOL_NAME :> [local_config_path |-> LOCAL_PATH, tags |-> <<Version(2)>>])]}

CacheInit ==
    /\ NoPackage
    /\ remote_url = <<>>
    /\ project_owner = <<>>
    /\ project_name = <<>>
    /\ _tags = <<>>
    /\ user_data \in CacheFiles
    /\ data_writes = 0
    /\ remote_size = 0
    /\ NoFetch
    /\ NoAssignment
    /\ NoUi

\* UserDataManager.update_tags(tool_name, tags)
UpdateTags ==
    /\ cache_calls < MaxCacheCalls
    /\ cache_calls' = cache_calls + 1
    /\ \E tool_name \in CacheNames, tags \in CacheTagLists :
        /\ user_data' = update_tags(user_data, tool_name, tags)
        /\ data_writes' = data_writes + 1
        /\ cache_call' = [op |-> "update_tags", tool_name |-> tool_name, tags |-> tags]
    /\ UNCHANGED <<remote_url, project_owner, project_name, _tags, remote_size,
                   fetch_pc, paginate, cache, pagination_page, all_tags, requests, responses,
                   fetch_result, fetch_err, fetches, new_tags, old_tags, tags_err>>
    /\ UNCHANGED <<pkg_vars, enable_vars, sync_vars, batch_vars, writers, scan_vars>>

\* UserDataManager.get_entry(tool_name): no name returns None before the file
\* is read; the read creates a missing file
GetEntry ==
    /\ cache_calls < MaxCacheCalls
    /\ cache_calls' = cache_calls + 1
    /\ \E tool_name \in CacheNames :
        /\ cache_call' = [op |-> "get_entry", tool_name |-> tool_name,
                          entry |-> get_entry(user_data, tool_name)]
        /\ user_data' = IF tool_name = <<>> THEN user_data
                        ELSE [exists |-> TRUE, data |-> _read_data(user_data)]
    /\ UNCHANGED data_writes
    /\ UNCHANGED <<remote_url, project_owner, project_name, _tags, remote_size,
                   fetch_pc, paginate, cache, pagination_page, all_tags, requests, responses,
                   fetch_result, fetch_err, fetches, new_tags, old_tags, tags_err>>
    /\ UNCHANGED <<pkg_vars, enable_vars, sync_vars, batch_vars, writers, scan_vars>>

CacheNext == UpdateTags \/ GetEntry

(***************************************************************************)
\* Remote(): _Repo.__init__(None) leaves the known list empty
(***************************************************************************)
(* Two writers of the one user data file, each in a call of update_tags:   *)
(* _read_data, the change of the dict it returned, _write_data.  Nothing   *)
(* orders the steps of one writer against those of the other.              *)
(***************************************************************************)
WriterIds == {1, 2}
WriterNames == <<TOOL_NAME, OTHER_NAME>>
Idle == [pc |-> "idle"]

WritersInit ==
    /\ NoPackage
    /\ remote_url = <<>>
    /\ project_owner = <<>>
    /\ project_name = <<>>
    /\ _tags = <<>>
    /\ user_data \in CacheFiles
    /\ data_writes = 0
    /\ remote_size = 0
    /\ NoFetch
    /\ NoAssignment
    /\ NoEnable
    /\ NoSync
    /\ NoBatch
    /\ cache_call = NoCall
    /\ cache_calls = 0
    /\ writers = [w \in WriterIds |-> Idle]
    /\ NoScan

\* the other writer is between its read and the end of its write
Busy(w) == writers[w].pc \in {"read", "writing"}

\* update_tags: data = self._read_data().  A file that another writer has
\* opened for writing and not yet closed holds no complete document
ReadData ==
    /\ \E w \in WriterIds, tags \in CacheTagLists :
        /\ writers[w].pc = "idle"
        /\ LET alone == \A v \in WriterIds \ {w} : ~Busy(v)
           IN  IF \E v \in WriterIds \ {w} : writers[v].pc = "writing"
               THEN /\ writers' = [writers EXCEPT ![w] =
                            [pc |-> "raised", err |-> "JSONDecodeError", tags |-> tags,
                             alone |-> alone]]
                    /\ UNCHANGED user_data
               ELSE /\ writers' = [writers EXCEPT ![w] =
                            [pc |-> "read", data |-> user_data, tags |-> tags, alone |-> alone]]
                    /\ user_data' = [exists |-> TRUE, data |-> _read_data(user_data)]
    /\ UNCHANGED data_writes
    /\ UNCHANGED <<remote_url, project_owner, project_name, _tags, remote_size,
                   fetch_pc, paginate, cache, pagination_page, all_tags, requests, responses,
                   fetch_result, fetch_err, fetches, new_tags, old_tags, tags_err>>
    /\ UNCHANGED <<pkg_vars, enable_vars, sync_vars, batch_vars, cache_call, cache_calls, scan_vars>>

\* _write_data: open(self.file_path, "w") truncates the file
OpenForWrite ==
    /\ \E w \in WriterIds :
        /\ writers[w].pc = "read"
        /\ writers' = [writers EXCEPT ![w].pc = "writing"]
    /\ UNCHANGED <<pkg_vars, repo_vars, enable_vars, sync_vars, batch_vars, cache_call,
                   cache_calls, scan_vars>>

\* _write_data: json.dump of the dict the writer read and changed, and the
\* close of the file
WriteData ==
    /\ \E w \in WriterIds :
        /\ writers[w].pc = "writing"
        /\ user_data' = update_tags(writers[w].data, WriterNames[w], writers[w].tags)
        /\ data_writes' = data_writes + 1
        /\ writers' = [writers EXCEPT ![w].pc = "done"]
    /\ UNCHANGED <<remote_url, project_owner, project_name, _tags, remote_size,
                   fetch_pc, paginate, cache, pagination_page, all_tags, requests, responses,
                   fetch_result, fetch_err, fetches, new_tags, old_tags, tags_err>>
    /\ UNCHANGED <<pkg_vars, enable_vars, sync_vars, batch_vars, cache_call, cache_calls, scan_vars>>

WritersNext == ReadData \/ OpenForWrite \/ WriteData

TagsInit == NoPackage /\ NoProject /\ NoUi

SetTags ==
    /\ \E value \in TagValues :
        \E out \in tags_setter(_tags, value) :
            /\ _tags' = out.tags
            /\ new_tags' = value
            /\ old_tags' = _tags
            /\ tags_err' = out.err
    /\ UNCHANGED <<remote_url, project_owner, project_name, user_data, data_writes,
                   remote_size,
                   fetch_pc, paginate, cache, pagination_page, all_tags, requests, responses,
                   fetch_result, fetch_err, fetches>>
    /\ UNCHANGED pkg_vars
    /\ UNCHANGED ui_vars

TagsNext == SetTags

(***************************************************************************)
(* PackageCollection.create_pkgs: the packages of a packages directory are *)
(* constructed one after another with the one env_vars dict and the one    *)
(* list of hconfig plugin paths of the collection.                         *)
(***************************************************************************)
MaxFiles == 2            \* .json files of the scanned packages directory

HOUDINI_PACKAGE_PATH == <<"H","O","U","D","I","N","I","_">> \o <<"P","A","C","K","A","G","E","_","P","A","T","H">>
PLUGIN_DIR == <<"p","/","m">>
PACKAGES_DIR == <<"q">>

\* the env_vars of hconfig, with and without a variable A
ScanHosts == {<< <<HOUDINI_PATH, PLUGIN_DIR>> >>,
              << <<(<<"A">>), (<<"h">>)>>, <<HOUDINI_PATH, PLUGIN_DIR>> >>}

\* the documents of the files: two names that call each other, a call of the
\* host's A, a name of a digit that calls itself, a plugin path
ScanDocs == {CycleDoc.doc,
             Obj(<< <<(<<"b">>), Str(<<"$","A">>)>> >>),
             DigitSelfDoc.doc,
             Obj(<< <<(<<"h","p","a","t","h">>), Str(PLUGIN_DIR)>> >>)}

\* Package.__init__ up to self._load()
Constructing ==
    /\ raw_json = Null
    /\ config = <<>>
    /\ env_rows = <<>>
    /\ warnings = <<>>
    /\ plugin_paths = <<>>
    /\ stack = <<>>
    /\ pc = "load"
    /\ err = ""
    /\ resolve_calls = 0
    /\ last_sub = NoSub
    /\ pass_start = <<>>

\* create_pkgs at its loop: HOUDINI_PACKAGE_PATH has been added to env_vars,
\* the paths of HOUDINI_PATH that exist are the hconfig plugin paths, the
\* directory has been listed and the first Package is about to be constructed
ScanInit ==
    /\ \E host \in ScanHosts, listing \in [1..MaxFiles -> ScanDocs] :
        /\ env_vars = Append(host, <<HOUDINI_PACKAGE_PATH, PACKAGES_DIR>>)
        /\ file = [status |-> "valid", doc |-> listing[1]]
        /\ walk = Tail(listing)
    /\ hconfig_plugin_paths = <<PLUGIN_DIR>>
    /\ disk = {PLUGIN_DIR, PACKAGES_DIR}
    /\ pkgs = <<>>
    /\ Constructing
    /\ NoProject
    /\ NoEnable
    /\ NoSync
    /\ NoBatch
    /\ NoCache

\* self.pkgs[filename] = Package(...): the constructor has returned, the
\* package is stored, and the loop goes on to the next file or ends
CreatePkg ==
    /\ pc = "done"
    /\ pkgs' = Append(pkgs, [doc |-> file.doc, config |-> config, warnings |-> warnings,
                             plugin_paths |-> plugin_paths])
    /\ IF walk = <<>>
       THEN /\ pc' = "scanned"
            /\ UNCHANGED <<file, walk, raw_json, config, env_rows, warnings, plugin_paths,
                           stack, err, resolve_calls, last_sub, pass_start>>
       ELSE /\ file' = [status |-> "valid", doc |-> Head(walk)]
            /\ walk' = Tail(walk)
            /\ raw_json' = Null
            /\ config' = <<>>
            /\ env_rows' = <<>>
            /\ warnings' = <<>>
            /\ plugin_paths' = <<>>
            /\ stack' = <<>>
            /\ pc' = "load"
            /\ err' = ""
            /\ resolve_calls' = 0
            /\ last_sub' = NoSub
            /\ pass_start' = <<>>
    /\ UNCHANGED <<env_vars, hconfig_plugin_paths, disk>>
    /\ UNCHANGED <<repo_vars, enable_vars, sync_vars, batch_vars, cache_vars>>

ScanNext == PkgNext \/ CreatePkg

(***************************************************************************)
(* The specifications: a package under construction and resolution, a      *)
(* project fetching its remote tags, a repository object being assigned.   *)
(***************************************************************************)
vars == <<pkg_vars, repo_vars, ui_vars>>
Init == PkgInit /\ NoProject /\ NoUi
Next == PkgNext
Spec == Init /\ [][Next]_vars
SpecFetch == FetchInit /\ [][FetchNext]_vars
SpecTags == TagsInit /\ [][TagsNext]_vars
SpecBatch == BatchInit /\ [][BatchNext]_vars
SpecWriters == WritersInit /\ [][WritersNext]_vars
SpecCache == CacheInit /\ [][CacheNext]_vars
SpecEnable == EnableInit /\ [][EnableNext]_vars
SpecScan == ScanInit /\ [][ScanNext]_vars

(***************************************************************************)
(* Properties of variable resolution.                                      *)
(***************************************************************************)
SeqMax(s) == CHOOSE x \in Range(s) : \A y \in Range(s) : y <= x
SeqMin(s) == CHOOSE x \in Range(s) : \A y \in Range(s) : x <= y
Substituted == last_sub # NoSub

\* the value of the merged entry at a 0-based index
ValueAt(index) == Last(Merged[index + 1])

\* C1: nearest-prior declaration.  When the called name is declared below and
\* above the index c of the calling entry, the value substituted is the one of
\* the declaration with the largest index below c.
C1_NearestPrior ==
    (/\ pc = "replace"
     /\ Substituted
     /\ \E i1, i2 \in Range(last_sub.decls) : i1 < last_sub.call_i /\ last_sub.call_i < i2)
    => LET prior == SeqMax(SelectSeq(last_sub.decls, LAMBDA d : d < last_sub.call_i))
       IN  /\ last_sub.var_index = prior
           /\ last_sub.new = re_sub_ignorecase(<<"$">> \o last_sub.call,
                                               ValueAt(prior).str, last_sub.old)

\* C2: forward fallback.  When every declaration of the called name lies above
\* the index c of the calling entry, the value substituted is the one of the
\* declaration with the smallest index, and the entry holds the result.
C2_ForwardFallback ==
    (/\ pc = "replace"
     /\ Substituted
     /\ \A d \in Range(last_sub.decls) : d > last_sub.call_i)
    => LET next == SeqMin(last_sub.decls)
       IN  /\ last_sub.var_index = next
           /\ IsStr(ValueAt(next))
           /\ last_sub.new = re_sub_ignorecase(<<"$">> \o last_sub.call,
                                               ValueAt(next).str, last_sub.old)
           /\ ValueAt(last_sub.call_i) = Str(last_sub.new)

\* a call was resolved forward past two later declarations of different values
C2_Witness ==
    /\ pc = "replace"
    /\ Substituted
    /\ Len(last_sub.decls) >= 2
    /\ \A d \in Range(last_sub.decls) : d > last_sub.call_i
    /\ ValueAt(last_sub.decls[1]) # ValueAt(last_sub.decls[2])
    /\ ~Contains(last_sub.new, "$")

\* the names a list of entries declares and the names a value calls: a call
\* is the longest run of letters, digits and "_" after a "$"
KeyOf(entry) == lower(entry[Len(entry) - 1].str)
Declares(entry) == Len(entry) >= 2 /\ IsStr(entry[Len(entry) - 1])
DeclaredNames(entries) ==
    {KeyOf(entries[i]) : i \in {j \in 1..Len(entries) : Declares(entries[j])}}
CalledNames(value, names) ==
    LET pieces == Tail(split(value, "$"))
    IN  {takewhile_variable(lower(pieces[i])) : i \in 1..Len(pieces)} \cap names

\* the pairs <<n, m>> of names with an entry n whose value calls m
References(entries, names) ==
    UNION {LET entry == entries[i]
           IN  IF Declares(entry) /\ IsStr(Last(entry))
               THEN {<<KeyOf(entry), called>> : called \in CalledNames(Last(entry).str, names)}
               ELSE {}
           : i \in 1..Len(entries)}

\* the pairs joined by a chain of at most k + 1 references
RECURSIVE Chains(_, _)
Chains(refs, k) ==
    IF k = 0 THEN refs
    ELSE LET shorter == Chains(refs, k - 1)
         IN  shorter \cup UNION {{<<r[1], s[2]>> : s \in {t \in refs : t[1] = r[2]}} : r \in shorter}

\* the names of a document on a cycle of two names or more
CycleNames(entries) ==
    LET names == DeclaredNames(entries)
        reaches == Chains(References(entries, names), Cardinality(names))
    IN  {n \in names : \E m \in names \ {n} : <<n, m>> \in reaches /\ <<m, n>> \in reaches}

\* each of the names is declared by one entry and by no host variable
DeclaredOnce(entries, names) ==
    \A n \in names :
        /\ Cardinality({i \in 1..Len(entries) : Declares(entries[i]) /\ KeyOf(entries[i]) = n}) = 1
        /\ \A i \in 1..Len(env_vars) : lower(env_vars[i][1]) # n

\* C3: cycle detection.  For a document whose variables reference each other
\* in a cycle the constructor raises nothing and ends with a warning recorded
\* and with every value on the cycle still holding a "$".
C3_CycleDetection ==
    (pc \in {"raised", "done"} /\ file.status = "valid" /\ IsObj(file.doc)) =>
        LET entries == _flatten_package(file.doc, <<>>)
            cycle == CycleNames(entries)
        IN  (cycle # {} /\ DeclaredOnce(entries, cycle)) =>
                /\ pc = "done"
                /\ warnings # <<>>
                /\ \A i \in 1..Len(config) :
                    (Declares(config[i]) /\ KeyOf(config[i]) \in cycle)
                    => (IsStr(Last(config[i])) /\ Contains(Last(config[i]).str, "$"))

(***************************************************************************)
(* Properties of plugin-path extraction.                                   *)
(***************************************************************************)
\* the entries with a key segment HOUDINI_PATH, path or hpath, the paths their
\* values list between ";", and those paths once each in first-occurrence
\* order, the ones the host knows only
HasPathKey(entry) ==
    \E i \in 1..(Len(entry) - 1) : entry[i] \in {Str(HOUDINI_PATH), Str(PATH_KEY), Str(HPATH_KEY)}
ListedPaths(entry) ==
    LET items == SelectSeq(split(Last(entry).str, ";"), LAMBDA item : item # <<>> /\ item # <<"&">>)
    IN  [i \in 1..Len(items) |-> Path(items[i])]
ClaimedPaths ==
    LET entries == SelectSeq(config, LAMBDA entry : HasPathKey(entry) /\ IsStr(Last(entry)))
        listed == Concat([i \in 1..Len(entries) |-> ListedPaths(entries[i])])
    IN  SelectSeq(dedupe(listed), LAMBDA path : path \in Range(hconfig_plugin_paths))

\* C8: plugin-path extraction.  A constructed package's plugin paths are the
\* paths of its path entries, once each in first-occurrence order, restricted
\* to the paths the host knows.
C8_PluginPaths == pc = "done" => plugin_paths = ClaimedPaths

(***************************************************************************)
(* Properties of flattening.                                               *)
(***************************************************************************)
Malformed == [malformed |-> TRUE]

\* the tree a list of key/index paths describes: an entry of one element is a
\* leaf; else the entries are grouped by their first element, keys giving an
\* object and the indexes 0, 1, ... an array
RECURSIVE Rebuild(_)
Rebuild(entries) ==
    IF entries = <<>> THEN Obj(<<>>)
    ELSE IF \E i \in 1..Len(entries) : Len(entries[i]) = 1
    THEN IF Len(entries) = 1 THEN entries[1][1] ELSE Malformed
    ELSE LET firsts == dedupe([i \in 1..Len(entries) |-> entries[i][1]])
             below(first) == LET mine == SelectSeq(entries, LAMBDA entry : entry[1] = first)
                             IN  Rebuild([i \in 1..Len(mine) |-> Tail(mine[i])])
         IN  IF \A k \in 1..Len(firsts) : IsStr(firsts[k])
             THEN Obj([k \in 1..Len(firsts) |-> <<firsts[k].str, below(firsts[k])>>])
             ELSE IF \A k \in 1..Len(firsts) : firsts[k] = Num(k - 1)
             THEN Arr([k \in 1..Len(firsts) |-> below(firsts[k])])
             ELSE Malformed

RECURSIVE SumSeq(_)
SumSeq(ns) == IF ns = <<>> THEN 0 ELSE Head(ns) + SumSeq(Tail(ns))

RECURSIVE LeafCount(_)
LeafCount(data) ==
    IF IsObj(data) THEN SumSeq([i \in 1..Len(data.obj) |-> LeafCount(data.obj[i][2])])
    ELSE IF IsArr(data) THEN SumSeq([i \in 1..Len(data.arr) |-> LeafCount(data.arr[i])])
    ELSE 1

RECURSIVE HasEmptyContainer(_)
HasEmptyContainer(data) ==
    IF IsObj(data)
    THEN data.obj = <<>> \/ \E i \in 1..Len(data.obj) : HasEmptyContainer(data.obj[i][2])
    ELSE IF IsArr(data)
    THEN data.arr = <<>> \/ \E i \in 1..Len(data.arr) : HasEmptyContainer(data.arr[i])
    ELSE FALSE

Flattened == pc = "resolve"
FlattenFaithful == Len(config) = LeafCount(raw_json) /\ Rebuild(config) = raw_json

\* C9, as the code has it: for a nested JSON value none of whose objects and
\* arrays is empty, flatten emits one entry per leaf scalar, in document order,
\* and the tree rebuilt from the emitted paths is the input
C9_FlattenNonEmpty == (Flattened /\ ~HasEmptyContainer(raw_json)) => FlattenFaithful

\* a document with an array inside an object inside an array was flattened
C9_Witness ==
    /\ Flattened
    /\ ~HasEmptyContainer(raw_json)
    /\ Len(config) >= 2
    /\ \E i \in 1..Len(config) : Len(config[i]) >= 3 /\ \E k \in 1..Len(config[i]) - 1 : IsNum(config[i][k])

\* C9, as stated: the same for every nested JSON value, empty objects and
\* arrays included
C9_FlattenAny == Flattened => FlattenFaithful

(***************************************************************************)
(* Properties of repeated resolution.                                      *)
(***************************************************************************)
NoDollar(data) ==
    \A i \in 1..Len(data) : IsStr(Last(data[i])) => ~Contains(Last(data[i]).str, "$")

\* every "\" of every string value written "/"
Slashed(data) ==
    [i \in 1..Len(data) |->
        IF IsStr(Last(data[i]))
        THEN [data[i] EXCEPT ![Len(data[i])] = Str([k \in 1..Len(@.str) |->
                                                    IF @.str[k] = "\\" THEN "/" ELSE @.str[k]])]
        ELSE data[i]]

\* a step of a call of resolve()
ResolveStep == pc \in {"resolve_loop", "replace"} \/ pc' \in {"resolve_loop", "replace"}

\* C10, as the code has it: resolve changes a config without "$" by writing
\* "/" for "\" in its values and in no other way, and a second resolve of a
\* resolved config changes no value
C10_ResolveIdempotent ==
    [][ResolveStep =>
        /\ NoDollar(config) => config' = Slashed(config)
        /\ resolve_calls' >= 2 => config' = config]_vars

\* a second resolve has completed on a config the first one had substituted in,
\* and on one free of "$" that held a "\"
C10_Witness ==
    /\ pc = "done"
    /\ resolve_calls = 2
    /\ warnings = <<>>
    /\ \/ /\ ~NoDollar(_flatten_package(raw_json, <<>>))
          /\ NoDollar(config)
       \/ /\ NoDollar(_flatten_package(raw_json, <<>>))
          /\ config # _flatten_package(raw_json, <<>>)

\* C10, as stated: resolve returns a config without "$" unchanged
C10_ResolveUnchanged ==
    [][ResolveStep =>
        /\ NoDollar(config) => config' = config
        /\ resolve_calls' >= 2 => config' = config]_vars

(***************************************************************************)
(* Properties of the fetch of remote tags.                                 *)
(***************************************************************************)
RateLimited == [status_code |-> FORBIDDEN]
Succeeded == [status_code |-> OK]

\* the fetch that ran last has returned
Returned == fetch_pc = "idle" /\ fetches > 0 /\ fetch_err = "" /\ remote_url # <<>>
Received == Concat([i \in 1..Len(responses) |-> responses[i].tags])
AllSucceeded == \A i \in 1..Len(responses) : responses[i].outcome = Succeeded

\* C4: pagination.  A paginated fetch requests the pages 1, 2, 3, ... with
\* page size 100, goes on after a full page only, stops after the first page
\* of fewer than 100 items, and returns the received pages joined in order; a
\* repository of 237 tags, pages of 100, 100 and 37, takes 3 requests.
C4_Pagination ==
    paginate =>
        /\ \A i \in 1..Len(requests) : requests[i] = [per_page |-> 100, page |-> i]
        /\ \A i \in 1..(Len(responses) - 1) :
                responses[i].outcome = Succeeded /\ Len(responses[i].tags) = 100
        /\ (fetch_pc = "request" /\ responses # <<>>) =>
                (Last(responses).outcome = Succeeded /\ Len(Last(responses).tags) = 100)
        /\ fetch_pc = "fetched" =>
                /\ all_tags = Received
                /\ AllSucceeded => Len(Last(responses).tags) < 100
        /\ Returned =>
                /\ fetch_result = Received
                /\ (AllSucceeded /\ remote_size = 237) =>
                        (Len(requests) = 3 /\ Len(fetch_result) = 237)

\* a paginated fetch of 237 tags has returned them from three pages
C4_Witness ==
    /\ paginate
    /\ Returned
    /\ [i \in 1..Len(responses) |-> Len(responses[i].tags)] = <<100, 100, 37>>
    /\ Len(fetch_result) = 237

\* C5: rate-limit propagation.  A request answered 403 is the last request of
\* its fetch, and the fetch raises RateLimitError.
C5_RateLimit ==
    \A i \in 1..Len(responses) :
        responses[i].outcome = RateLimited =>
            /\ i = Len(requests)
            /\ fetch_pc = "idle"
            /\ fetch_err = "RateLimitError"

\* a fetch was rate limited on its second page
C5_Witness ==
    /\ Len(responses) = 2
    /\ responses[1].outcome = Succeeded
    /\ responses[2].outcome = RateLimited
    /\ fetch_err = "RateLimitError"

(***************************************************************************)
(* Properties of the assignment of a tag list to the known tags.           *)
(***************************************************************************)
\* the list assigned last, <<>> when the value was no str and no list of str
NewList ==
    IF IsStr(new_tags) THEN <<new_tags.str>>
    ELSE IF all_str(new_tags) THEN [i \in 1..Len(new_tags.arr) |-> new_tags.arr[i].str]
    ELSE <<>>

Overlap == Range(old_tags) \cap Range(NewList) # {}

\* natural version order: digit runs compare as numbers, other runs as strings
NaturalLess(a, b) == key_less(_version_key(a), _version_key(b))
Descending(tags) ==
    \A i, j \in 1..Len(tags) : i < j => (tags[i] # tags[j] /\ ~NaturalLess(tags[i], tags[j]))

\* C6: tag merge with overlap.  A non-empty known list assigned a different
\* list that shares a tag with it becomes the union of the two, each tag once,
\* in descending natural version order: [v1, v2] and [v2, v3] give
\* [v3, v2, v1], and v10 comes before v3.
C6_MergeOverlap ==
    (old_tags # <<>> /\ NewList # <<>> /\ NewList # old_tags /\ Overlap) =>
        /\ Range(_tags) = Range(old_tags) \cup Range(NewList)
        /\ Descending(_tags)
        /\ (old_tags = <<Version(1), Version(2)>> /\ NewList = <<Version(2), Version(3)>>)
                => _tags = <<Version(3), Version(2), Version(1)>>
        /\ (old_tags = <<Version(3), Version(2)>> /\ NewList = <<Version(10), Version(2)>>)
                => _tags = <<Version(10), Version(3), Version(2)>>

\* [v1, v2] was assigned [v2, v3]
C6_Witness ==
    /\ old_tags = <<Version(1), Version(2)>>
    /\ NewList = <<Version(2), Version(3)>>
    /\ _tags = <<Version(3), Version(2), Version(1)>>

\* C7: tag merge without overlap.  A non-empty known list assigned a non-empty
\* list that shares no tag with it becomes that list, in its order.
C7_MergeDisjoint ==
    (old_tags # <<>> /\ NewList # <<>> /\ ~Overlap) => _tags = NewList

\* [v1] was assigned [v2, v3], which is not in descending order
C7_Witness ==
    /\ old_tags = <<Version(1)>>
    /\ NewList = <<Version(2), Version(3)>>
    /\ _tags = NewList

(***************************************************************************)
(* Properties of the split of a path list.                                 *)
(***************************************************************************)
EndsWith(s, suffix) ==
    Len(s) >= Len(suffix) /\ SubSeq(s, Len(s) - Len(suffix) + 1, Len(s)) = suffix

\* a path-list value without its one trailing sentinel, ";&" or ";"
WithoutSentinel(value) ==
    IF EndsWith(value, <<";", "&">>) THEN SubSeq(value, 1, Len(value) - 2)
    ELSE IF EndsWith(value, <<";">>) THEN SubSeq(value, 1, Len(value) - 1)
    ELSE value

\* the values of the path entries of a flattened config
PathListValues(data) ==
    {Last(data[i]).str : i \in {j \in 1..Len(data) : HasPathKey(data[j]) /\ IsStr(Last(data[j]))}}

\* C11: path split.  The extraction splits every path-list value on ";" after
\* removing exactly one trailing ";&" or ";": it raises nothing, and the pieces
\* of each value are those of the value without its sentinel.
C11_PathSplit ==
    [][pc = "extract" =>
        /\ pc' = "done"
        /\ \A value \in PathListValues(config) :
            /\ ~split_paths_raises(value)
            /\ split_paths(value) = split(WithoutSentinel(value), ";")]_vars

(***************************************************************************)
(* Properties of a fetch that fails.                                       *)
(***************************************************************************)
ConnectionFailed == [error |-> "ConnectionError"]
HasFailed(resps) ==
    \E i \in 1..Len(resps) : resps[i].outcome \in {RateLimited, ConnectionFailed}

\* C12: state unchanged on fetch error.  Every step of a fetch up to and
\* including the request answered 403 or cut by a connection failure leaves
\* the known tags and the user data file as they are and returns nothing, and
\* the failed request ends the fetch with the error raised.
C12_ErrorKeepsState ==
    [][(fetch_pc' = "request" \/ HasFailed(responses')) =>
        /\ _tags' = _tags
        /\ user_data' = user_data
        /\ fetch_result' = fetch_result
        /\ HasFailed(responses') =>
            (fetch_pc' = "idle" /\ fetch_err' \in {"RateLimitError", "RequestConnectionError"})]_vars

\* a caching fetch of a project with known tags lost its connection on the
\* second page, a full first page received
C12_Witness ==
    /\ cache
    /\ _tags # <<>>
    /\ Len(responses) = 2
    /\ Len(responses[1].tags) = tags_per_request
    /\ responses[2].outcome = ConnectionFailed
    /\ fetch_err = "RequestConnectionError"

(***************************************************************************)
(* Properties of a fetch answered with an unmapped status.                 *)
(***************************************************************************)
Unmapped(outcome) ==
    "status_code" \in DOMAIN outcome /\ outcome.status_code \notin {OK, FORBIDDEN}

\* C14: unmapped status.  A request answered with a status other than 200 and
\* 403 raises nothing, adds no tags and is the last request of its fetch, and
\* the fetch returns the tags of the pages received before it: the empty list
\* when it is the first page.
C14_UnmappedStatus ==
    \A i \in 1..Len(responses) :
        Unmapped(responses[i].outcome) =>
            /\ fetch_err = ""
            /\ i = Len(requests)
            /\ fetch_pc \in {"fetched", "idle"}
            /\ all_tags = Concat([k \in 1..(i - 1) |-> responses[k].tags])
            /\ i = 1 => all_tags = <<>>
            /\ fetch_pc = "idle" => fetch_result = all_tags

\* a fetch has returned the one full page it received before a 404
C14_Witness ==
    /\ fetch_pc = "idle"
    /\ Len(responses) = 2
    /\ responses[1].outcome = Succeeded
    /\ Unmapped(responses[2].outcome)
    /\ Len(fetch_result) = tags_per_request

(***************************************************************************)
(* Properties of the load of a file that does not parse.                   *)
(***************************************************************************)
ParseErrors == {"JSONDecodeError", "UnicodeDecodeError"}

\* C16: malformed JSON never propagates.  Once a file whose first parse fails
\* is loaded, a warning is recorded, the document is the repaired one or, when
\* the repair fails too, the empty object; and no parse error ever leaves the
\* construction of a package.
C16_ParseNeverEscapes ==
    /\ ~(pc = "raised" /\ err \in ParseErrors)
    /\ (pc # "load" /\ file.status # "valid") =>
            /\ \E i \in 1..Len(warnings) : warnings[i] = InvalidJsonWarning
            /\ raw_json = IF file.status = "repairable" THEN file.doc ELSE Obj(<<>>)

(***************************************************************************)
(* Properties of the calls of undeclared names.                            *)
(***************************************************************************)
StartsWith(s, prefix) == Len(s) >= Len(prefix) /\ SubSeq(s, 1, Len(prefix)) = prefix

\* the name a "$" is followed by, and the names the merged config declares
NameAfterDollar(piece) == takewhile_variable(lower(piece))
MergedNames ==
    DeclaredNames(config) \cup {lower(env_vars[i][1]) : i \in 1..Len(env_vars)}

\* a value with the calls of a name replaced, every call of an undeclared
\* name kept as it is written
KeepUndeclared(call, repl, value, names) ==
    LET pieces == split(value, "$")
    IN  Concat([k \in 1..Len(pieces) |->
            IF k = 1 THEN pieces[k]
            ELSE IF StartsWith(lower(pieces[k]), call) /\ NameAfterDollar(pieces[k]) \in names
            THEN repl \o SubSeq(pieces[k], Len(call) + 1, Len(pieces[k]))
            ELSE <<"$">> \o pieces[k]])

DeclaredCalls(value, names) == CalledNames(value, names)

\* C20: undeclared calls.  A substitution leaves every call of an undeclared
\* name as it is written; a resolve that ends without a warning leaves no call
\* of a declared name behind; and a document all of whose calls are of
\* undeclared names keeps its values and gets no circular-reference warning.
C20_UndeclaredCalls ==
    /\ (pc = "replace" /\ Substituted) =>
            last_sub.new = KeepUndeclared(last_sub.call, last_sub.repl, last_sub.old, MergedNames)
    /\ (pc = "done" /\ warnings = <<>>) =>
            \A i \in 1..Len(config) :
                IsStr(Last(config[i])) => DeclaredCalls(Last(config[i]).str, MergedNames) = {}
    /\ (pc = "done" /\ \A i \in 1..Len(_flatten_package(raw_json, <<>>)) :
                        LET value == Last(_flatten_package(raw_json, <<>>)[i])
                        IN  IsStr(value) => DeclaredCalls(value.str, MergedNames) = {}) =>
            /\ config = Slashed(_flatten_package(raw_json, <<>>))
            /\ \A i \in 1..Len(warnings) : warnings[i].kind # "circular"

(***************************************************************************)
(* C17: a read of enable returns true when the flattened config has no     *)
(* enable key, false when the value of the key is the string false in any  *)
(* letter case, true when it is the string true in any letter case, and    *)
(* in every case a boolean.                                                *)
(***************************************************************************)
HasEnableKey(data) == \E i \in 1..Len(data) : data[i][Len(data[i]) - 1] = Str(ENABLE_KEY)
EnableValue(data) ==
    Last(data[CHOOSE i \in 1..Len(data) :
                /\ data[i][Len(data[i]) - 1] = Str(ENABLE_KEY)
                /\ \A j \in 1..(i - 1) : data[j][Len(data[j]) - 1] # Str(ENABLE_KEY)])
IsWord(value, word) == IsStr(value) /\ lower(value.str) = word

C17_EnableRead ==
    [][ReadEnable =>
        /\ enable_read' \in {Bool(TRUE), Bool(FALSE)}
        /\ ~HasEnableKey(config) => enable_read' = Bool(TRUE)
        /\ (HasEnableKey(config) /\ IsWord(EnableValue(config), FALSE_STR))
              => enable_read' = Bool(FALSE)
        /\ (HasEnableKey(config) /\ IsWord(EnableValue(config), TRUE_STR))
              => enable_read' = Bool(TRUE)]_vars

\* the same for the configs whose enable value is a boolean or one of the two words
C17_EnableReadOfWords ==
    [][(ReadEnable /\ (HasEnableKey(config) =>
                          \/ IsBool(EnableValue(config))
                          \/ IsWord(EnableValue(config), FALSE_STR)
                          \/ IsWord(EnableValue(config), TRUE_STR))) =>
        /\ enable_read' \in {Bool(TRUE), Bool(FALSE)}
        /\ ~HasEnableKey(config) => enable_read' = Bool(TRUE)
        /\ (HasEnableKey(config) /\ IsWord(EnableValue(config), FALSE_STR))
              => enable_read' = Bool(FALSE)
        /\ (HasEnableKey(config) /\ IsWord(EnableValue(config), TRUE_STR))
              => enable_read' = Bool(TRUE)]_vars

(***************************************************************************)
(* C18: a write of enable = b sets the flattened entry and the top-level   *)
(* key of the raw document to b and dumps the raw document to the file     *)
(* before it returns, so that a read that follows returns b; a second      *)
(* write of the same b changes neither the flattened config, nor the raw   *)
(* document, nor the file.                                                 *)
(***************************************************************************)
WriteOfBool == WriteEnable /\ enable_err' # NotBoolError
RawEnable(node) ==
    IF IsObj(node) /\ \E k \in 1..Len(node.obj) : node.obj[k][1] = ENABLE_KEY
    THEN node.obj[CHOOSE k \in 1..Len(node.obj) : node.obj[k][1] = ENABLE_KEY][2]
    ELSE [absent |-> TRUE]

C18_EnableWrite ==
    [][WriteOfBool =>
        /\ enable_err' = ""
        /\ HasEnableKey(config') /\ EnableValue(config') = _enable'
        /\ is_enabled(config') = _enable'
        /\ RawEnable(raw_json') = _enable'
        /\ file' = [status |-> "valid", doc |-> raw_json']
        /\ (_enable = _enable' /\ RawEnable(raw_json) = _enable /\ file.doc = raw_json)
              => UNCHANGED <<config, raw_json, file>>]_vars

\* the same for the packages whose document is an object
C18_EnableWriteOfObject ==
    [][(WriteOfBool /\ IsObj(raw_json)) =>
        /\ enable_err' = ""
        /\ HasEnableKey(config') /\ EnableValue(config') = _enable'
        /\ is_enabled(config') = _enable'
        /\ RawEnable(raw_json') = _enable'
        /\ file' = [status |-> "valid", doc |-> raw_json']
        /\ (_enable = _enable' /\ RawEnable(raw_json) = _enable /\ file.doc = raw_json)
              => UNCHANGED <<config, raw_json, file>>]_vars

(***************************************************************************)
(* C15: fetch_latest_remote_tag returns None when the project has no       *)
(* remote url and when its fetch obtained no tags from the remote, be the  *)
(* repository empty or the response an unmapped status, whatever tags were *)
(* known before the call.                                                  *)
(***************************************************************************)
LatestReturns == latest_pc # "returned" /\ latest_pc' = "returned"

C15_LatestNone ==
    [][LatestReturns =>
        ((remote_url = <<>> \/ fetch_result' = <<>>) => latest_tag' = <<>>)]_vars

\* the same for a project that knew no tags before the call
C15_LatestNoneOfUnknown ==
    [][(LatestReturns /\ _tags = <<>>) =>
        ((remote_url = <<>> \/ fetch_result' = <<>>) => latest_tag' = <<>>)]_vars

(***************************************************************************)
(* C19: after update_tags(name, tags) a get_entry(name) returns an entry   *)
(* whose tags are the given list; an update leaves the entries of all      *)
(* other names as they were and an existing entry its local_config_path;   *)
(* no call of get_entry or update_tags removes an entry.                   *)
(***************************************************************************)
Names(ud) == IF ud.exists THEN DOMAIN ud.data ELSE {}
Updated == cache_call.op = "update_tags"
GetsUpdated == Updated /\ GetEntry /\ cache_call'.tool_name = cache_call.tool_name

C19_CacheFrame ==
    [][/\ GetsUpdated => /\ cache_call'.entry # Null
                         /\ cache_call'.entry.tags = cache_call.tags
       /\ UpdateTags => /\ \A n \in Names(user_data) \ {cache_call'.tool_name} :
                              n \in Names(user_data') /\ user_data'.data[n] = user_data.data[n]
                        /\ cache_call'.tool_name \in Names(user_data) =>
                              user_data'.data[cache_call'.tool_name].local_config_path
                                 = user_data.data[cache_call'.tool_name].local_config_path
       /\ CacheNext => Names(user_data) \subseteq Names(user_data')]_vars

\* the same with the reads of a tool that has a name
C19_CacheFrameOfNamed ==
    [][/\ (GetsUpdated /\ cache_call.tool_name # <<>>) =>
                         /\ cache_call'.entry # Null
                         /\ cache_call'.entry.tags = cache_call.tags
       /\ UpdateTags => /\ \A n \in Names(user_data) \ {cache_call'.tool_name} :
                              n \in Names(user_data') /\ user_data'.data[n] = user_data.data[n]
                        /\ cache_call'.tool_name \in Names(user_data) =>
                              user_data'.data[cache_call'.tool_name].local_config_path
                                 = user_data.data[cache_call'.tool_name].local_config_path
       /\ CacheNext => Names(user_data) \subseteq Names(user_data')]_vars

(***************************************************************************)
(* C13: a sync of the whole table clicks the rows that have a button one   *)
(* after another in row order; a fetch that fails with a rate-limit or a   *)
(* connection error ends the loop, no row after it is clicked, and the     *)
(* user data written by the fetches before it is left as it was written.   *)
(***************************************************************************)
RECURSIVE ButtonRows(_, _)
ButtonRows(table, upto) ==
    IF upto = 0 THEN <<>>
    ELSE IF HasButton(table[upto]) THEN Append(ButtonRows(table, upto - 1), upto)
    ELSE ButtonRows(table, upto - 1)

\* the rows the loop has passed or clicked
Reached ==
    IF batch_pc = "loop" THEN batch_row - 1
    ELSE IF batch_row > Len(cell_data) THEN Len(cell_data) ELSE batch_row
FetchFailed == fetch_err \in {"RateLimitError", "RequestConnectionError"}
HandlerReturned == batch_pc = "clicked" /\ sync_row = 0

C13_BatchAbort ==
    [][/\ batch_pc' \in {"loop", "clicked", "end"} => started' = ButtonRows(cell_data', Reached')
       /\ (HandlerReturned /\ FetchFailed) =>
             /\ batch_pc' = "end"
             /\ batch_exception' = fetch_err
             /\ user_data' = user_data
       /\ (batch_pc = "clicked" /\ FetchFailed') => user_data' = user_data
       /\ batch_pc = "end" => /\ started' = started
                              /\ user_data' = user_data
                              /\ batch_pc' \in {"idle", "raised"}]_vars

\* a batch ended by the rate limit of its second fetch, with a row left and
\* the tags of its first fetch in the user data
C13_Witness ==
    /\ batch_pc = "end"
    /\ batch_exception = "RateLimitError"
    /\ Len(started) = 2
    /\ started[2] < Len(cell_data)
    /\ HasButton(cell_data[Len(cell_data)])
    /\ TOOL_NAME \in DOMAIN user_data.data
    /\ user_data.data[TOOL_NAME].tags = cell_data[started[1]].tags
    /\ cell_data[started[1]].latest = Version(2)

(***************************************************************************)
(* C21: a call and a declaration match when their names are equal with the *)
(* letter case ignored, and the whole text of the call is replaced by the  *)
(* value of the declaration in whatever case the call is written.          *)
(***************************************************************************)
\* a value with every call of a name, in any letter case, replaced
ReplaceCalls(name, repl, value) ==
    LET pieces == split(value, "$")
    IN  Concat([k \in 1..Len(pieces) |->
            IF k = 1 THEN pieces[k]
            ELSE IF NameAfterDollar(pieces[k]) = name
            THEN repl \o SubSeq(pieces[k], Len(name) + 1, Len(pieces[k]))
            ELSE <<"$">> \o pieces[k]])

\* no other call of the value begins with the name
NoLongerCall(name, value) ==
    LET pieces == Tail(split(value, "$"))
    IN  \A k \in 1..Len(pieces) :
            StartsWith(lower(pieces[k]), name) => NameAfterDollar(pieces[k]) = name

C21_CaseInsensitive ==
    (pc = "replace" /\ Substituted) =>
        /\ KeyOf(Merged[last_sub.var_index + 1]) = last_sub.call
        /\ NoLongerCall(last_sub.call, last_sub.old)
              => last_sub.new = ReplaceCalls(last_sub.call, last_sub.repl, last_sub.old)

\* the call $B, written in capitals, replaced by the value of the key b
C21_Witness ==
    /\ pc = "replace"
    /\ Substituted
    /\ Merged[last_sub.var_index + 1][Len(Merged[last_sub.var_index + 1]) - 1] = Str(<<"b">>)
    /\ last_sub.old = <<"$","B","/","$","a">>
    /\ last_sub.new = last_sub.repl \o <<"/","$","a">>

(***************************************************************************)
(* C22: after every assignment of a fetched list to the known tags, in the *)
(* branch that adopts it, the one that merges it and the one that replaces *)
(* the known list by it, no tag is twice in the known list.                *)
(***************************************************************************)
NoTagTwice(tags) == \A i, j \in 1..Len(tags) : tags[i] = tags[j] => i = j
Assigned == new_tags # Null /\ tags_err = ""

C22_NoDuplicateTags == Assigned => NoTagTwice(_tags)

\* the same for a fetched list that holds no tag twice
C22_NoDuplicatesOfDistinct ==
    [][(Assigned' /\ NoTagTwice(_tags)
          /\ (all_str(new_tags') => NoTagTwice(new_tags'.arr)))
        => NoTagTwice(_tags')]_vars

(***************************************************************************)
(* C23: update_tags reads the file, changes what it read and writes it     *)
(* back.  When two writers update the tags of two names and each reads     *)
(* only while the other is not between its read and its write, the file    *)
(* ends with both updates; when their steps interleave, the file can end   *)
(* with one of the two updates missing.                                    *)
(***************************************************************************)
BothDone == \A w \in WriterIds : writers[w].pc = "done"
Serialized == \A w \in WriterIds : writers[w].alone
Present(w) ==
    /\ WriterNames[w] \in Names(user_data)
    /\ user_data.data[WriterNames[w]].tags = writers[w].tags

C23_LostUpdate ==
    /\ writers # <<>> /\ BothDone /\ Serialized => \A w \in WriterIds : Present(w)
    /\ writers # <<>> /\ BothDone => \E w \in WriterIds : Present(w)

\* both writers have returned and the update of one of them is not in the file
C23_Witness ==
    /\ writers # <<>>
    /\ BothDone
    /\ \E w \in WriterIds : ~Present(w)

(***************************************************************************)
(* Resolution after a circular reference has been detected.                *)
(***************************************************************************)
CircularDetected == \E k \in 1..Len(warnings) : warnings[k].kind = "circular"

\* C24: abort on circular reference.  Once a circular reference has been
\* detected during resolve, no value of any entry is modified afterwards: the
\* call sites still pending in the current pass are not substituted and no
\* further pass is started.
C24_AbortOnCircular ==
    [][(CircularDetected /\ pc \in {"replace", "resolve_loop"}) =>
            /\ config' = config
            /\ pc = "resolve_loop" => pc' # "replace"]_vars

\* the part of it that the loop of _resolve_vars keeps: with a circular
\* reference recorded no further pass is started
C24_NoFurtherPass ==
    [][(CircularDetected /\ pc = "resolve_loop") => (pc' # "replace" /\ config' = config)]_vars

(***************************************************************************)
(* Termination of the loop of _resolve_vars.                               *)
(***************************************************************************)
\* the call sites a pass would find
CallsLeft == var_calls(Merged, potential_var_names(Merged)) # <<>>

\* the loop is at its head, about to start a pass from the entries its last
\* pass started from: that pass left them as they were, and so will this one
\* and every pass after it
SamePassAgain ==
    /\ pc = "resolve_loop"
    /\ warnings = <<>>
    /\ CallsLeft
    /\ Merged = pass_start

\* C25: resolve terminates.  The loop of _resolve_vars ends after finitely
\* many passes: it never comes to start a pass from the very entries its last
\* pass started from, with no warning recorded.
C25_ResolveTerminates == ~SamePassAgain

\* what the loop leaves when its break is taken: no call of a declared name,
\* or a warning
C25_LoopExit ==
    [][(pc = "resolve_loop" /\ pc' \in {"extract", "done"}) =>
            (~CallsLeft \/ warnings # <<>>)]_vars

(***************************************************************************)
(* Calls of the name the calling entry itself declares.                    *)
(***************************************************************************)
\* the last substitution was for a call of the calling entry's own name, and
\* another entry declares the name too
OwnNameCalled ==
    /\ pc = "replace"
    /\ Substituted
    /\ last_sub.call_i \in Range(last_sub.decls)
    /\ \E d \in Range(last_sub.decls) : d # last_sub.call_i

\* C26: a call is never resolved against its own entry.  For a call of NAME in
\* the value of an entry whose key is NAME, the declaration used is the one
\* with the largest index strictly below the call's index, else the one with
\* the smallest index strictly above it.
C26_NotOwnEntry ==
    OwnNameCalled =>
        LET below == SelectSeq(last_sub.decls, LAMBDA d : d < last_sub.call_i)
            above == SelectSeq(last_sub.decls, LAMBDA d : d > last_sub.call_i)
        IN  last_sub.var_index = IF below # <<>> THEN SeqMax(below) ELSE SeqMin(above)

\* when the calling entry does not declare the called name, a declaration
\* strictly below or strictly above the call is used, the nearest below first
C26_OtherEntry ==
    (pc = "replace" /\ Substituted /\ last_sub.call_i \notin Range(last_sub.decls)) =>
        LET below == SelectSeq(last_sub.decls, LAMBDA d : d < last_sub.call_i)
            above == SelectSeq(last_sub.decls, LAMBDA d : d > last_sub.call_i)
        IN  last_sub.var_index = IF below # <<>> THEN SeqMax(below) ELSE SeqMin(above)

(***************************************************************************)
(* Extraction after a failed resolution.                                   *)
(***************************************************************************)
\* C27: extraction is skipped on failure.  When resolve has recorded a
\* circular reference, plugin-path extraction does not run and the plugin path
\* list stays empty, whatever path entries the config holds.
C27_ExtractionSkipped ==
    CircularDetected => (pc # "extract" /\ plugin_paths = <<>>)

\* extraction is the step after the first resolve() of every package that
\* raised nothing, with or without warnings
C27_ExtractionRuns ==
    [][(pc = "resolve_loop" /\ resolve_calls = 1 /\ pc' # "raised" /\ pc' # "replace")
            => pc' = "extract"]_vars

(***************************************************************************)
(* A fetch whose list is the known list.                                   *)
(***************************************************************************)
\* a caching fetch has its list, and it is the known list, item for item
IdenticalFetched == fetch_pc = "fetched" /\ cache /\ all_tags = _tags

\* C28: no persistence on identical lists.  When the fetched list equals the
\* known list as an ordered list, the return of the fetch leaves the known
\* tags and the user data as they are and does not write the user data file.
C28_NoPersistence ==
    [][(IdenticalFetched /\ fetch_pc' = "idle") =>
            /\ _tags' = _tags
            /\ user_data' = user_data
            /\ data_writes' = data_writes]_vars

\* what the assignment alone keeps: the known tags are left as they are
C28_KnownKept ==
    [][(IdenticalFetched /\ fetch_pc' = "idle") => _tags' = _tags]_vars

\* every caching fetch that returns writes the user data file once
C28_AlwaysWritten ==
    [][(fetch_pc = "fetched" /\ cache /\ fetch_pc' = "idle")
            => data_writes' = data_writes + 1]_vars

(***************************************************************************)
(* Calls of names the host environment declares.                           *)
(***************************************************************************)
\* the declarations of the called name among the host rows, and among the
\* package entries before the calling entry
HostDecls == SelectSeq(last_sub.decls, LAMBDA d : d < Len(env_rows))
PriorDecls == SelectSeq(last_sub.decls, LAMBDA d : Len(env_rows) <= d /\ d < last_sub.call_i)

\* the last substitution was in a package entry, for a name the host declares
HostNameCalled ==
    /\ pc = "replace"
    /\ Substituted
    /\ last_sub.call_i >= Len(env_rows)
    /\ HostDecls # <<>>

ShadowingRule ==
    IF PriorDecls # <<>>
    THEN last_sub.var_index = SeqMax(PriorDecls)
    ELSE /\ last_sub.var_index = SeqMax(HostDecls)
         /\ last_sub.repl = Last(env_rows[last_sub.var_index + 1]).str

\* C29: host variables and shadowing.  A call of a name the host declares is
\* resolved to the host value when the package has no declaration of the name
\* before the call, also when it declares the name after the call, and to the
\* package's nearest prior declaration when it has one.
C29_HostShadowing == HostNameCalled => ShadowingRule

\* the same for the calls of entries that do not declare the called name
C29_HostShadowingOfOthers ==
    (HostNameCalled /\ last_sub.call_i \notin Range(last_sub.decls)) => ShadowingRule

(***************************************************************************)
(* The user data after a caching fetch.                                    *)
(***************************************************************************)
\* the entry of the project in the user data file holds the known tags
EntryIsKnown ==
    /\ project_name \in Names(user_data)
    /\ user_data.data[project_name].tags = _tags

C40_NeverRaises == file.status = "valid" => pc # "raised"

\* a document of entries that all have a key and a string value, no path entry
\* of an empty value among them, raises nothing
C40_StringEntries ==
    (/\ file.status = "valid"
     /\ pc \notin {"load", "flatten"}
     /\ \A i \in 1..Len(config) : Len(config[i]) >= 2 /\ IsStr(Last(config[i]))
     /\ \A value \in PathListValues(config) : value # <<>>)
    => pc # "raised"

(***************************************************************************)
(* Substitution and the names that begin with the substituted name.        *)
(***************************************************************************)
\* C33: substitution respects maximal names.  A substitution of the calls of a
\* name rewrites the calls whose maximal identifier run is that name, and
\* leaves every other call of the value, a call of a longer name that begins
\* with the name included, as it is written.
C33_MaximalNames ==
    (pc = "replace" /\ Substituted) =>
        last_sub.new = ReplaceCalls(last_sub.call, last_sub.repl, last_sub.old)

\* the same for the values that hold no call of a longer name
C33_MaximalNamesOfPlain ==
    (pc = "replace" /\ Substituted /\ NoLongerCall(last_sub.call, last_sub.old)) =>
        last_sub.new = ReplaceCalls(last_sub.call, last_sub.repl, last_sub.old)

(***************************************************************************)
(* The circular-reference warnings and the cycles of a document.           *)
(***************************************************************************)
\* the entries resolve() starts from: the host rows and the flattened document
StartEntries ==
    [i \in 1..Len(env_vars) |-> <<Str(env_vars[i][1]), Str(env_vars[i][2])>>]
        \o _flatten_package(raw_json, <<>>)

\* the names whose value calls the name itself, directly or through the values
\* of the names it calls
SelfCalling(entries) ==
    LET names == DeclaredNames(entries)
        reaches == Chains(References(entries, names), Cardinality(names))
    IN  {n \in names : <<n, n>> \in reaches}

\* C32: no false circular warning.  A circular-reference warning is recorded
\* only for a document in which some variable's value calls, directly or
\* through other variables, the variable itself; a value that calls two
\* variables that both call a third one gets none.
C32_NoFalseWarning ==
    CircularDetected => SelfCalling(StartEntries) # {}

\* every circular-reference warning names a name that the document or the host
\* declares
C32_WarnsDeclared ==
    \A k \in 1..Len(warnings) :
        warnings[k].kind = "circular" => warnings[k].var \in DeclaredNames(StartEntries)

(***************************************************************************)
(* The resolution of a repaired document.                                  *)
(***************************************************************************)
\* no value of the config holds a call of a name that is declared
NoDeclaredCallLeft ==
    \A i \in 1..Len(config) :
        IsStr(Last(config[i])) => DeclaredCalls(Last(config[i]).str, MergedNames) = {}

\* C34: a repaired config is resolved like a valid one.  When the first parse
\* of the file fails and the repairing parse succeeds, the constructor ends
\* with every call of a declared name substituted, as it does for a valid file
\* of the repaired document.
C34_RepairedResolved ==
    (pc = "done" /\ file.status = "repairable") => NoDeclaredCallLeft

\* a repaired document is flattened as a valid one is, and its values are left
\* as the flattening gives them, with their separators normalised
C34_RepairedFlattened ==
    (pc = "done" /\ file.status = "repairable") =>
        /\ raw_json = file.doc
        /\ config = Slashed(_flatten_package(file.doc, <<>>))

(***************************************************************************)
(* Assigning the same list twice.                                          *)
(***************************************************************************)
\* the step assigns the value that the step before it assigned
SameAgain == new_tags' = new_tags

\* no two tags of the lists have the same version key
DistinctKeys(tags) ==
    \A a, b \in tags : _version_key(a) = _version_key(b) => a = b

\* C39: reconciliation is idempotent.  Assigning to the tags the list that was
\* assigned just before leaves the known list as the first assignment left it.
C39_Idempotent == [][SameAgain => _tags' = _tags]_vars

\* the same when no two of the tags at hand have the same version key
C39_IdempotentOfDistinctKeys ==
    [][(SameAgain /\ all_str(new_tags)
          /\ DistinctKeys(Range(_tags) \cup {new_tags.arr[i].str : i \in 1..Len(new_tags.arr)}))
        => _tags' = _tags]_vars

(***************************************************************************)
(* The file around a write of enable, and a new record of the written file.*)
(***************************************************************************)
\* the top-level entries of a document
TopEntries(node) == IF IsObj(node) THEN Range(node.obj) ELSE {}

\* the write leaves in the file every top-level entry other than enable
OthersKept ==
    /\ \A entry \in TopEntries(file.doc) :
          entry[1] # ENABLE_KEY => entry \in TopEntries(file'.doc)
    /\ ~IsObj(file.doc) => file' = file

\* C36: the frame of a write of enable.  A write of enable changes only the
\* top-level enable key of the backing file: every other key and value the
\* file held before the write is in it afterwards, be the document loaded from
\* valid JSON, from repaired JSON or as the empty document of a file that
\* cannot be parsed.
C36_EnableFrame == [][WriteEnable => OthersKept]_vars

\* the same for the files that the constructor could parse or repair
C36_EnableFrameOfParsed ==
    [][(WriteEnable /\ file.status # "broken") => OthersKept]_vars

\* a read of enable in a record that was constructed after the last write
ReadOfNew == ReadEnable /\ dumped # Null /\ _enable = Null

\* C38: enable survives a refresh.  After enable was written with a value, a
\* new record constructed from the same file reads that value, also when the
\* document holds an enable key nested under another key.
C38_EnableSurvives == [][ReadOfNew => enable_read' = dumped]_vars

\* the same for the documents whose first enable key is the top-level one
C38_EnableSurvivesOfTopLevel ==
    [][(ReadOfNew /\ HasEnableKey(_flatten_package(file.doc, <<>>))
          /\ list_index(config_keys(_flatten_package(file.doc, <<>>)), Str(ENABLE_KEY))
               = list_index([i \in 1..Len(_flatten_package(file.doc, <<>>)) |->
                                IF Len(_flatten_package(file.doc, <<>>)[i]) = 2
                                THEN _flatten_package(file.doc, <<>>)[i][1]
                                ELSE Null],
                            Str(ENABLE_KEY)))
        => enable_read' = dumped]_vars

(***************************************************************************)
(* The errors that end a sync of the whole table.                          *)
(***************************************************************************)
\* the loop of the batch is left at the check that follows a handler
LoopBroken == HandlerReturned /\ batch_pc' = "end"

\* C35: a batch aborts only for its own errors.  The sync of the whole table
\* leaves its loop early, and reports a rate-limit or a connection error, only
\* when the fetch of the row it has just clicked raised that error; an error
\* that a sync button clicked before the batch left in the exception tracker
\* does not end the batch.
C35_OwnErrors ==
    [][LoopBroken => (FetchFailed /\ batch_exception' = fetch_err)]_vars

\* the same for a batch that no click of a sync button came before
C35_OwnErrorsOfFirstSync ==
    [][(LoopBroken /\ clicks = 0) => (FetchFailed /\ batch_exception' = fetch_err)]_vars

(***************************************************************************)
(* The cached tags of two repositories of one name.                        *)
(***************************************************************************)
\* a repository of the name of the fetching project's, of another owner
FORK_URL == GITHUB \o <<"b","o","b","/","t","o","o","l",".","g","i","t">>

\* init_repo_data of a project of a remote url: the entry it reads from the
\* user data
CachedFor(url, ud) == get_entry(ud, _extract_owner(url).name)

\* the fetching project's repository is another one than that of the url
AnotherRepository(url) ==
    /\ remote_url # <<>>
    /\ remote_url # url
    /\ <<project_owner, project_name>>
          # <<_extract_owner(url).owner, _extract_owner(url).name>>

\* C37: separate tag lists per repository.  A fetch for a repository never
\* changes the cached tags that a package of another repository reads, also
\* when the two repositories have the same name and different owners.
C37_SeparateLists ==
    [][AnotherRepository(FORK_URL) =>
            CachedFor(FORK_URL, user_data') = CachedFor(FORK_URL, user_data)]_vars

\* the same for a repository of another name
C37_SeparateListsOfNames ==
    [][AnotherRepository(OTHER_URL) =>
            CachedFor(OTHER_URL, user_data') = CachedFor(OTHER_URL, user_data)]_vars

(***************************************************************************)
(* The packages of one scan.                                               *)
(***************************************************************************)
\* the entries a package of a document starts its resolution from
EntriesOf(doc) ==
    [i \in 1..Len(env_vars) |-> <<Str(env_vars[i][1]), Str(env_vars[i][2])>>]
        \o _flatten_package(doc, <<>>)

HasCircularWarning(list) == \E k \in 1..Len(list) : list[k].kind = "circular"

\* a package whose document has a name that calls itself is stored with a
\* warning, a package that has none without one, and no package raises
WarnedAlone ==
    /\ \A i \in 1..Len(pkgs) :
          HasCircularWarning(pkgs[i].warnings) <=> SelfCalling(EntriesOf(pkgs[i].doc)) # {}
    /\ pc # "raised"

\* the files that were listed are constructed one by one
ScanGoesOn == ~(SamePassAgain /\ walk # <<>>)

\* C31: package isolation in a scan.  A circular reference in one package
\* records a warning on that package only and raises nothing; every other
\* package of the scan is still constructed and gets no warning from it.
C31_PackageIsolation == WarnedAlone /\ ScanGoesOn

\* the packages that a scan stores are warned of their own circular references
\* only
C31_WarnedAlone == WarnedAlone

\* every package of the scan resolves against the host mapping and the plugin
\* paths that the first one found
C31_HostUnmodified ==
    [][env_vars' = env_vars /\ hconfig_plugin_paths' = hconfig_plugin_paths]_vars

=============================================================================
